---- MODULE Spec2Model ----
(***************************************************************************)
(* Analysis Record Versioning Engine of dish_healthiness_prod.             *)
(*                                                                         *)
(* The store is the table dish_image_query_prod_dev; the JSON column       *)
(* result_gemini is the analysis payload.  Python dicts are functions      *)
(* from key strings, so key presence is membership in DOMAIN.  None is     *)
(* NULL where the value is a document and NoneStr where it is a string.    *)
(* number_of_servings is kept in hundredths (1.0 is 100).                  *)
(*                                                                         *)
(* The application runs in one uvicorn process: every endpoint and every   *)
(* background task is a coroutine of one event loop, so the code between   *)
(* two awaits is one step.  The only awaits are the provider calls.        *)
(***************************************************************************)
EXTENDS Integers, Sequences, FiniteSets, TLC

VARIABLES db, nextId, now, step1Queue, tasks, hist

vars == <<db, nextId, now, step1Queue, tasks, hist>>

(***************************************************************************)
(* Bounds of the model.                                                    *)
(***************************************************************************)
MaxRecords == 1
MaxTasks == 2
MaxTime == 1

(***************************************************************************)
(* Values.                                                                 *)
(***************************************************************************)
NULL == [null |-> TRUE]
NoneStr == "<None>"
EmptyDict == <<>>

Users == {1, 2}

LegacyPayloads ==
    { [dish_name |-> "Soup", calories_kcal |-> 100],
      [calories_kcal |-> 100] }

Step1Results == { [components |-> "Rice"] }
Step2Results == { [dish_name |-> "Chicken Rice", calories_kcal |-> 500] }
BriefResults ==
    { [dish_name |-> "Soup v2", calories_kcal |-> 120],
      [dish_name |-> "Soup v3", calories_kcal |-> 90] }

DishNames == {"Chicken Rice"}
\* The bodies of metadata updates the schema accepts: a full correction, one
\* with an empty dish name and one with an empty serving size.
MetadataUpdates ==
    { [selected_dish |-> "Fried Rice", selected_serving_size |-> "1 cup",
       number_of_servings |-> 150],
      [selected_dish |-> "", selected_serving_size |-> "1 cup",
       number_of_servings |-> 100],
      [selected_dish |-> "Fried Rice", selected_serving_size |-> "",
       number_of_servings |-> 100] }
ComponentLists == { <<[component_name |-> "Rice",
                       selected_serving_size |-> "1 cup",
                       number_of_servings |-> 100]>> }

(***************************************************************************)
(* Dict helpers.                                                           *)
(***************************************************************************)
Has(d, k) == k \in DOMAIN d

Get(d, k, default) == IF k \in DOMAIN d THEN d[k] ELSE default

Put(d, k, v) == [j \in (DOMAIN d) \cup {k} |-> IF j = k THEN v ELSE d[j]]

\* Python truthiness of a document: None and {} are falsy.
Falsy(d) == d = NULL \/ DOMAIN d = {}

\* Python truthiness of a string-or-None value.
FalsyStr(s) == s = NoneStr \/ s = ""

\* Format detection by key presence: a payload with an iterations key.
Versioned(p) == Has(p, "iterations")

ReplaceAt(s, i, v) == [j \in 1..Len(s) |-> IF j = i THEN v ELSE s[j]]

(***************************************************************************)
(* Iteration Structure Manager: pure constructions.                        *)
(***************************************************************************)
DefaultMetadata(analysis_result) ==
    [selected_dish |-> Get(analysis_result, "dish_name", "Unknown"),
     selected_serving_size |-> NoneStr,
     number_of_servings |-> 100,
     metadata_modified |-> FALSE]

\* Mutant: the default dish name is taken by truthiness (dish_name or
\* "Unknown"), so an empty dish_name is replaced too.
initialize_iterations_structureOrUnknown(analysis_result, metadata, t) ==
    [iterations |->
        << [iteration_number |-> 1,
            created_at |-> t,
            user_feedback |-> NULL,
            metadata |-> IF metadata = NULL
                         THEN [selected_dish |->
                                   IF FalsyStr(Get(analysis_result, "dish_name", NoneStr))
                                   THEN "Unknown"
                                   ELSE analysis_result.dish_name,
                               selected_serving_size |-> NoneStr,
                               number_of_servings |-> 100,
                               metadata_modified |-> FALSE]
                         ELSE metadata,
            analysis |-> analysis_result] >>,
     current_iteration |-> 1]

\* Mutant: the first iteration is numbered from zero.
initialize_iterations_structureZeroBased(analysis_result, metadata, t) ==
    [iterations |->
        << [iteration_number |-> 0,
            created_at |-> t,
            user_feedback |-> NULL,
            metadata |-> IF metadata = NULL
                         THEN DefaultMetadata(analysis_result)
                         ELSE metadata,
            analysis |-> analysis_result] >>,
     current_iteration |-> 1]

initialize_iterations_structure(analysis_result, metadata, t) ==
    [iterations |->
        << [iteration_number |-> 1,
            created_at |-> t,
            user_feedback |-> NULL,
            metadata |-> IF metadata = NULL
                         THEN DefaultMetadata(analysis_result)
                         ELSE metadata,
            analysis |-> analysis_result] >>,
     current_iteration |-> 1]

\* Mutant: the legacy view takes the dish name by truthiness, so an empty
\* dish_name reads as "Unknown".
get_current_iterationOrUnknown(record) ==
    IF Falsy(record.result_gemini) THEN NULL
    ELSE IF ~Has(record.result_gemini, "iterations")
    THEN [iteration_number |-> 1,
          created_at |-> record.created_at,
          user_feedback |-> NULL,
          metadata |-> [selected_dish |->
                            IF FalsyStr(Get(record.result_gemini, "dish_name", NoneStr))
                            THEN "Unknown"
                            ELSE record.result_gemini.dish_name,
                        selected_serving_size |-> NoneStr,
                        number_of_servings |-> 100,
                        metadata_modified |-> FALSE],
          analysis |-> record.result_gemini]
    ELSE LET current_idx == Get(record.result_gemini, "current_iteration", 1) - 1
             iterations == record.result_gemini.iterations
         IN  IF 0 <= current_idx /\ current_idx < Len(iterations)
             THEN iterations[current_idx + 1]
             ELSE NULL

\* The read view of a record: None (NULL), the synthesized legacy
\* iteration, or the iteration current_iteration points at.
get_current_iteration(record) ==
    IF Falsy(record.result_gemini) THEN NULL
    ELSE IF ~Has(record.result_gemini, "iterations")
    THEN [iteration_number |-> 1,
          created_at |-> record.created_at,
          user_feedback |-> NULL,
          metadata |-> DefaultMetadata(record.result_gemini),
          analysis |-> record.result_gemini]
    ELSE LET current_idx == Get(record.result_gemini, "current_iteration", 1) - 1
             iterations == record.result_gemini.iterations
         IN  IF 0 <= current_idx /\ current_idx < Len(iterations)
             THEN iterations[current_idx + 1]
             ELSE NULL

\* add_metadata_reanalysis_iteration: the structure it appends to (an
\* absent or legacy payload is first wrapped as iteration 1), the iteration
\* it appends, and the payload it commits for a record whose payload is p.
AppendBase(p, t) ==
    IF Falsy(p) \/ ~Has(p, "iterations")
    THEN initialize_iterations_structure(
             IF Falsy(p) THEN EmptyDict ELSE p, NULL, t)
    ELSE p

NewIteration(new_iteration_number, analysis_result, metadata, t) ==
    [iteration_number |-> new_iteration_number,
     created_at |-> t,
     user_feedback |-> NULL,
     metadata |-> Put(metadata, "metadata_modified", TRUE),
     analysis |-> analysis_result]

\* Mutant: the pointer is advanced but the iteration is not appended.
AppendedPayloadPointerOnly(p, analysis_result, metadata, t) ==
    LET base == AppendBase(p, t)
    IN  Put(base, "current_iteration", Len(base.iterations) + 1)

\* Mutant: the new iteration is numbered from zero.
AppendedPayloadZeroBased(p, analysis_result, metadata, t) ==
    LET base == AppendBase(p, t)
        n == Len(base.iterations)
    IN  Put(Put(base, "iterations",
                Append(base.iterations,
                       NewIteration(n, analysis_result, metadata, t))),
            "current_iteration", n)

\* Mutant: the new iteration replaces the history instead of extending it.
AppendedPayloadDropsHistory(p, analysis_result, metadata, t) ==
    LET base == AppendBase(p, t)
        n == Len(base.iterations) + 1
    IN  Put(Put(base, "iterations",
                <<NewIteration(n, analysis_result, metadata, t)>>),
            "current_iteration", 1)

\* Mutant: a legacy or absent payload is discarded instead of being kept
\* as iteration 1.
AppendedPayloadDiscardsLegacy(p, analysis_result, metadata, t) ==
    LET base == IF Falsy(p) \/ ~Has(p, "iterations")
                THEN [iterations |-> <<>>, current_iteration |-> 0]
                ELSE p
        n == Len(base.iterations) + 1
    IN  Put(Put(base, "iterations",
                Append(base.iterations,
                       NewIteration(n, analysis_result, metadata, t))),
            "current_iteration", n)

\* Mutant: the iteration is appended but the pointer stays where it was.
AppendedPayloadKeepsPointer(p, analysis_result, metadata, t) ==
    LET base == AppendBase(p, t)
        new_iteration_number == Len(base.iterations) + 1
    IN  Put(base, "iterations",
            Append(base.iterations,
                   NewIteration(new_iteration_number, analysis_result,
                                metadata, t)))

AppendedPayload(p, analysis_result, metadata, t) ==
    LET base == AppendBase(p, t)
        new_iteration_number == Len(base.iterations) + 1
    IN  Put(Put(base, "iterations",
                Append(base.iterations,
                       NewIteration(new_iteration_number, analysis_result,
                                    metadata, t))),
            "current_iteration", new_iteration_number)

\* update_metadata: the payload after the legacy upgrade, the index of
\* the current iteration in it, and the payload it commits.
UpgradedPayload(p, t) ==
    IF ~Has(p, "iterations")
    THEN initialize_iterations_structure(p, NULL, t)
    ELSE p

MetadataIndexValid(p, t) ==
    LET q == UpgradedPayload(p, t)
        current_idx == Get(q, "current_iteration", 1) - 1
    IN  0 <= current_idx /\ current_idx < Len(q.iterations)

\* Mutant: the correction is stored as a new iteration.
MetadataUpdatedPayloadAppends(p, selected_dish, selected_serving_size, number_of_servings, t) ==
    LET q == UpgradedPayload(p, t)
        n == Len(q.iterations) + 1
        it == q.iterations[Get(q, "current_iteration", 1)]
        md == [selected_dish |-> selected_dish,
               selected_serving_size |-> selected_serving_size,
               number_of_servings |-> number_of_servings,
               metadata_modified |-> TRUE]
    IN  Put(Put(q, "iterations",
                Append(q.iterations,
                       Put(Put(Put(it, "metadata", md), "iteration_number", n),
                           "created_at", t))),
            "current_iteration", n)

\* Mutant: the correction also refreshes the iteration's timestamp.
MetadataUpdatedPayloadStamps(p, selected_dish, selected_serving_size, number_of_servings, t) ==
    LET q == UpgradedPayload(p, t)
        i == Get(q, "current_iteration", 1)
        it == q.iterations[i]
        md == Put(Put(Put(Put(it.metadata, "selected_dish", selected_dish),
                          "selected_serving_size", selected_serving_size),
                      "number_of_servings", number_of_servings),
                  "metadata_modified", TRUE)
    IN  Put(q, "iterations",
            ReplaceAt(q.iterations, i,
                      Put(Put(it, "metadata", md), "created_at", t)))

MetadataUpdatedPayload(p, selected_dish, selected_serving_size, number_of_servings, t) ==
    LET q == UpgradedPayload(p, t)
        i == Get(q, "current_iteration", 1)
        it == q.iterations[i]
        m1 == Put(it.metadata, "selected_dish", selected_dish)
        m2 == Put(m1, "selected_serving_size", selected_serving_size)
        m3 == Put(m2, "number_of_servings", number_of_servings)
        m4 == Put(m3, "metadata_modified", TRUE)
    IN  Put(q, "iterations",
            ReplaceAt(q.iterations, i, Put(it, "metadata", m4)))

(***************************************************************************)
(* Two-Step Merge Logic: pure constructions.                               *)
(***************************************************************************)
\* The payload analyze_image_background writes when step 1 returns.
Step1Payload(step1_result, t) ==
    [step |-> 1,
     step1_data |-> step1_result,
     step2_data |-> NULL,
     step1_confirmed |-> FALSE,
     iterations |->
        << [iteration_number |-> 1,
            created_at |-> t,
            step |-> 1,
            step1_data |-> step1_result,
            step2_data |-> NULL,
            metadata |-> EmptyDict] >>,
     current_iteration |-> 1]

\* confirm_step1: the precondition and the optimistic update.
ConfirmAllowed(p) == ~Falsy(p) /\ Has(p, "step") /\ p.step = 1

ConfirmedPayload(p, confirmed_dish_name, confirmed_components) ==
    Put(Put(Put(p, "step1_confirmed", TRUE),
            "confirmed_dish_name", confirmed_dish_name),
        "confirmed_components", confirmed_components)

\* trigger_step2_analysis_background: whether the mirror into the current
\* iteration applies, whether it raises (KeyError on a missing metadata
\* key), and the payload it writes.
Step2MirrorApplies(p) ==
    /\ Has(p, "iterations")
    /\ Len(p.iterations) > 0
    /\ LET current_iter_idx == Get(p, "current_iteration", 1) - 1
       IN  0 <= current_iter_idx /\ current_iter_idx < Len(p.iterations)

Step2Raises(p) ==
    /\ Step2MirrorApplies(p)
    /\ ~Has(p.iterations[Get(p, "current_iteration", 1)], "metadata")

\* Mutant: the mirror is written into the first iteration, whichever
\* iteration is current.
Step2MergedPayloadFirst(p, step2_result, dish_name, components) ==
    LET top == Put(Put(Put(p, "step", 2), "step2_data", step2_result),
                   "step1_confirmed", TRUE)
    IN  IF Step2MirrorApplies(p)
        THEN LET it == p.iterations[1]
                 md == Put(Put(it.metadata, "confirmed_dish_name", dish_name),
                           "confirmed_components", components)
                 it2 == Put(Put(Put(it, "step", 2), "step2_data", step2_result),
                            "metadata", md)
             IN  Put(top, "iterations", ReplaceAt(p.iterations, 1, it2))
        ELSE top

Step2MergedPayload(p, step2_result, dish_name, components) ==
    LET top == Put(Put(Put(p, "step", 2), "step2_data", step2_result),
                   "step1_confirmed", TRUE)
    IN  IF Step2MirrorApplies(p)
        THEN LET i == Get(p, "current_iteration", 1)
                 it == p.iterations[i]
                 md == Put(Put(it.metadata, "confirmed_dish_name", dish_name),
                           "confirmed_components", components)
                 it2 == Put(Put(Put(it, "step", 2), "step2_data", step2_result),
                            "metadata", md)
             IN  Put(top, "iterations", ReplaceAt(p.iterations, i, it2))
        ELSE top

(***************************************************************************)
(* Record Store.                                                           *)
(***************************************************************************)
Exists(id) == id \in DOMAIN db

PayloadOf(id) == IF Exists(id) THEN db[id].result_gemini ELSE NULL

create_dish_image_query(user_id, t) ==
    [user_id |-> user_id, created_at |-> t, result_gemini |-> NULL]

\* update_dish_image_query_results with result_openai = None: a missing
\* record and a None result are both left alone.
update_dish_image_query_results(id, result_gemini) ==
    IF Exists(id) /\ result_gemini # NULL
    THEN [db EXCEPT ![id].result_gemini = result_gemini]
    ELSE db

delete_dish_image_query_by_id(id) ==
    [j \in (DOMAIN db) \ {id} |-> db[j]]

\* The lookup every item endpoint starts with: a missing record and a
\* record of another user both give 404.
Visible(user, id) == Exists(id) /\ db[id].user_id = user

\* The HTTPException that lookup raises: one check for a missing record,
\* one for a record of another user (NULL: none raised).
\* Mutant: a record of another user is answered 403.
lookup_errorForbidden(user, id) ==
    IF ~Exists(id)
    THEN [status_code |-> 404, detail |-> "Record not found"]
    ELSE IF db[id].user_id # user
    THEN [status_code |-> 403, detail |-> "Forbidden"]
    ELSE NULL

lookup_error(user, id) ==
    IF ~Exists(id)
    THEN [status_code |-> 404, detail |-> "Record not found"]
    ELSE IF db[id].user_id # user
    THEN [status_code |-> 404, detail |-> "Record not found"]
    ELSE NULL

\* What the last request or background task was and how it answered
\* (status 0: no response, a background task or a request still awaiting
\* the provider).  rep: it repeats the successful metadata update before it.
Event(op, id, status, a) ==
    [op |-> op, id |-> id, status |-> status, a |-> a,
     rep |-> /\ op = "update_metadata"
             /\ hist.op = "update_metadata"
             /\ hist.status = 200
             /\ hist.id = id
             /\ hist.a = a]

(***************************************************************************)
(* Initial state: the table as earlier versions of the system left it, an  *)
(* empty table or one record with a legacy (pre-versioning) payload.       *)
(***************************************************************************)
NoArgs == [none |-> TRUE]

InitialStores ==
    {EmptyDict} \cup
    { [id \in {1} |-> [user_id |-> 1, created_at |-> 0, result_gemini |-> P]] :
        P \in LegacyPayloads }

Init ==
    /\ db \in InitialStores
    /\ nextId = Cardinality(DOMAIN db) + 1
    /\ now = 0
    /\ step1Queue = {}
    /\ tasks = <<>>
    /\ hist = [op |-> "init", id |-> 0, status |-> 0, a |-> NoArgs,
               rep |-> FALSE]

(***************************************************************************)
(* Time passes.                                                            *)
(***************************************************************************)
Tick ==
    /\ now < MaxTime
    /\ now' = now + 1
    /\ UNCHANGED <<db, nextId, step1Queue, tasks, hist>>

(***************************************************************************)
(* upload_dish / upload_dish_from_url: create the record with a null       *)
(* payload and schedule the step-1 analysis.                               *)
(***************************************************************************)
UploadDish(user) ==
    /\ nextId <= MaxRecords
    /\ db' = Put(db, nextId, create_dish_image_query(user, now))
    /\ nextId' = nextId + 1
    /\ step1Queue' = step1Queue \cup {nextId}
    /\ hist' = Event("upload_dish", nextId, 200, NoArgs)
    /\ UNCHANGED <<now, tasks>>

\* Mutant: the step-1 task stays scheduled and runs again.
AnalyzeImageBackgroundRetried(id, step1_result) ==
    /\ id \in step1Queue
    /\ db' = update_dish_image_query_results(id, Step1Payload(step1_result, now))
    /\ hist' = Event("step1_write", id, 0, NoArgs)
    /\ UNCHANGED <<nextId, now, tasks, step1Queue>>

\* analyze_image_background after the provider returned step1_result.
AnalyzeImageBackground(id, step1_result) ==
    /\ id \in step1Queue
    /\ db' = update_dish_image_query_results(id, Step1Payload(step1_result, now))
    /\ step1Queue' = step1Queue \ {id}
    /\ hist' = Event("step1_write", id, 0, NoArgs)
    /\ UNCHANGED <<nextId, now, tasks>>

\* Mutant: a failed step 1 is recorded in the payload as an error flag.
AnalyzeImageBackgroundFailsFlagged(id) ==
    /\ id \in step1Queue
    /\ db' = update_dish_image_query_results(id, [error |-> "analysis failed"])
    /\ step1Queue' = step1Queue \ {id}
    /\ hist' = Event("step1_failed", id, 0, NoArgs)
    /\ UNCHANGED <<nextId, now, tasks>>

\* analyze_image_background when the provider raised: logged only.
AnalyzeImageBackgroundFails(id) ==
    /\ id \in step1Queue
    /\ step1Queue' = step1Queue \ {id}
    /\ hist' = Event("step1_failed", id, 0, NoArgs)
    /\ UNCHANGED <<db, nextId, now, tasks>>

(***************************************************************************)
(* confirm_step1 (POST /api/item/{record_id}/confirm-step1).               *)
(***************************************************************************)
\* Mutant: the confirmation is not persisted before step 2 is started.
ConfirmStep1Deferred(user, id, dish_name, components) ==
    /\ Len(tasks) < MaxTasks
    /\ Visible(user, id)
    /\ ConfirmAllowed(db[id].result_gemini)
    /\ tasks' = Append(tasks, [kind |-> "step2", st |-> "inflight", id |-> id,
                               dish_name |-> dish_name,
                               components |-> components])
    /\ hist' = Event("confirm_step1", id, 200, [task |-> Len(tasks) + 1])
    /\ UNCHANGED <<db, nextId, now, step1Queue>>

ConfirmStep1(user, id, dish_name, components) ==
    /\ Len(tasks) < MaxTasks
    /\ Visible(user, id)
    /\ ConfirmAllowed(db[id].result_gemini)
    /\ db' = update_dish_image_query_results(
                 id, ConfirmedPayload(db[id].result_gemini, dish_name, components))
    /\ tasks' = Append(tasks, [kind |-> "step2", st |-> "inflight", id |-> id,
                               dish_name |-> dish_name,
                               components |-> components])
    /\ hist' = Event("confirm_step1", id, 200, [task |-> Len(tasks) + 1])
    /\ UNCHANGED <<nextId, now, step1Queue>>

ConfirmStep1Rejected(user, id) ==
    /\ ~(Visible(user, id) /\ ConfirmAllowed(db[id].result_gemini))
    /\ hist' = Event("confirm_step1", id,
                     IF Visible(user, id) THEN 400 ELSE 404, NoArgs)
    /\ UNCHANGED <<db, nextId, now, step1Queue, tasks>>

(***************************************************************************)
(* trigger_step2_analysis_background after the provider returned.  The     *)
(* task ends "done" (written), "noop" (record or payload missing: logged,  *)
(* plain return) or "failed" (an exception caught and logged by the        *)
(* except clause); it has no path that raises into its caller.             *)
(***************************************************************************)
\* Mutant: a missing record is written back by the step-2 task.
TriggerStep2AnalysisBackgroundResurrects(t, step2_result) ==
    /\ t \in 1..Len(tasks)
    /\ tasks[t].kind = "step2"
    /\ tasks[t].st = "inflight"
    /\ LET id == tasks[t].id
           p == PayloadOf(id)
           top == [step |-> 2, step2_data |-> step2_result,
                   step1_confirmed |-> TRUE]
       IN  /\ db' = IF ~Exists(id)
                    THEN Put(db, id, [user_id |-> 1, created_at |-> now,
                                      result_gemini |-> top])
                    ELSE IF Falsy(p)
                    THEN [db EXCEPT ![id].result_gemini = top]
                    ELSE update_dish_image_query_results(
                             id, Step2MergedPayload(p, step2_result,
                                     tasks[t].dish_name, tasks[t].components))
           /\ tasks' = [tasks EXCEPT ![t].st = "done"]
           /\ hist' = Event("step2_write", id, 0, [task |-> t])
    /\ UNCHANGED <<nextId, now, step1Queue>>

TriggerStep2AnalysisBackground(t, step2_result) ==
    /\ t \in 1..Len(tasks)
    /\ tasks[t].kind = "step2"
    /\ tasks[t].st = "inflight"
    /\ LET id == tasks[t].id
           p == PayloadOf(id)
           written == ~Falsy(p) /\ ~Step2Raises(p)
       IN  /\ db' = IF written
                    THEN update_dish_image_query_results(
                             id, Step2MergedPayload(p, step2_result,
                                     tasks[t].dish_name, tasks[t].components))
                    ELSE db
           /\ tasks' = [tasks EXCEPT ![t].st = IF written THEN "done"
                                               ELSE IF Falsy(p) THEN "noop"
                                               ELSE "failed"]
           /\ hist' = Event(IF written THEN "step2_write"
                            ELSE IF Falsy(p) THEN "step2_noop"
                            ELSE "step2_error",
                            id, 0, [task |-> t])
    /\ UNCHANGED <<nextId, now, step1Queue>>

TriggerStep2AnalysisBackgroundFails(t) ==
    /\ t \in 1..Len(tasks)
    /\ tasks[t].kind = "step2"
    /\ tasks[t].st = "inflight"
    /\ tasks' = [tasks EXCEPT ![t].st = "failed"]
    /\ hist' = Event("step2_failed", tasks[t].id, 0, [task |-> t])
    /\ UNCHANGED <<db, nextId, now, step1Queue>>

(***************************************************************************)
(* update_metadata and add_metadata_reanalysis_iteration on the store.     *)
(***************************************************************************)
\* The return value of update_metadata.
update_metadata_result(id, t) ==
    /\ Exists(id)
    /\ ~Falsy(db[id].result_gemini)
    /\ MetadataIndexValid(db[id].result_gemini, t)

\* Mutant: an absent payload is initialized (result_gemini or {}) and
\* updated instead of being refused.
update_metadataInitializesAbsent(id, selected_dish, selected_serving_size, number_of_servings, t) ==
    IF Exists(id)
    THEN [db EXCEPT ![id].result_gemini =
              MetadataUpdatedPayload(IF Falsy(@) THEN EmptyDict ELSE @,
                                     selected_dish, selected_serving_size,
                                     number_of_servings, t)]
    ELSE db

\* The store update_metadata leaves behind.
update_metadata(id, selected_dish, selected_serving_size, number_of_servings, t) ==
    IF update_metadata_result(id, t)
    THEN [db EXCEPT ![id].result_gemini =
              MetadataUpdatedPayload(@, selected_dish, selected_serving_size,
                                     number_of_servings, t)]
    ELSE db

\* The store add_metadata_reanalysis_iteration leaves behind; it returns
\* None exactly when the record does not exist.
add_metadata_reanalysis_iteration(id, analysis_result, metadata, t) ==
    IF Exists(id)
    THEN [db EXCEPT ![id].result_gemini =
              AppendedPayload(@, analysis_result, metadata, t)]
    ELSE db

(***************************************************************************)
(* update_item_metadata (PATCH /api/item/{record_id}/metadata).  The 400   *)
(* raised for a false update_metadata is raised inside the try block and   *)
(* is caught by its own except clause, which answers 500.                  *)
(***************************************************************************)
UpdateItemMetadata(user, id, metadata) ==
    /\ db' = IF Visible(user, id)
             THEN update_metadata(id, metadata.selected_dish,
                                  metadata.selected_serving_size,
                                  metadata.number_of_servings, now)
             ELSE db
    /\ hist' = Event("update_metadata", id,
                     IF ~Visible(user, id) THEN 404
                     ELSE IF update_metadata_result(id, now) THEN 200
                     ELSE 500,
                     IF ~Visible(user, id) THEN lookup_error(user, id)
                     ELSE metadata)
    /\ UNCHANGED <<nextId, now, step1Queue, tasks>>

(***************************************************************************)
(* reanalyze_item (POST /api/item/{record_id}/reanalyze): the part before  *)
(* the provider call, and the part after it.  The image of a record is     *)
(* taken to be on disk (image storage is outside the model), so the 400    *)
(* "No image found" and 404 "Image file not found" answers do not arise.   *)
(***************************************************************************)
\* Mutant: only selected_dish is checked; a missing serving size is let
\* through to the provider.
ReanalyzeStatusDishOnly(user, id) ==
    IF ~Visible(user, id) THEN 404
    ELSE LET current_iter == get_current_iteration(db[id])
         IN  IF current_iter = NULL \/ ~Has(current_iter, "metadata") THEN 400
             ELSE IF FalsyStr(Get(current_iter.metadata, "selected_dish", NoneStr))
             THEN 400
             ELSE 0

ReanalyzeStatus(user, id) ==
    IF ~Visible(user, id) THEN 404
    ELSE LET current_iter == get_current_iteration(db[id])
         IN  IF current_iter = NULL \/ ~Has(current_iter, "metadata") THEN 400
             ELSE IF \/ FalsyStr(Get(current_iter.metadata, "selected_dish", NoneStr))
                     \/ FalsyStr(Get(current_iter.metadata,
                                     "selected_serving_size", NoneStr))
             THEN 400
             ELSE 0

ReanalyzeItem(user, id) ==
    /\ Len(tasks) < MaxTasks
    /\ ReanalyzeStatus(user, id) = 0
    /\ LET metadata == get_current_iteration(db[id]).metadata
       IN  tasks' = Append(tasks,
               [kind |-> "reanalyze", st |-> "inflight", id |-> id,
                selected_dish |-> metadata.selected_dish,
                selected_serving_size |-> metadata.selected_serving_size,
                number_of_servings |-> Get(metadata, "number_of_servings", 100),
                seen |-> IF Has(db[id].result_gemini, "iterations")
                         THEN Len(db[id].result_gemini.iterations)
                         ELSE 0,
                iteration_number |-> 0,
                analysis_data |-> NULL])
    /\ hist' = Event("reanalyze_item", id, 0, [task |-> Len(tasks) + 1])
    /\ UNCHANGED <<db, nextId, now, step1Queue>>

ReanalyzeItemRejected(user, id) ==
    /\ ReanalyzeStatus(user, id) # 0
    /\ hist' = Event("reanalyze_item", id, ReanalyzeStatus(user, id),
                     IF ~Visible(user, id) THEN lookup_error(user, id)
                     ELSE NoArgs)
    /\ UNCHANGED <<db, nextId, now, step1Queue, tasks>>

\* Mutant: the iteration is appended to the iterations read when the
\* request arrived, not to those stored now.
ReanalyzeItemCompletesStale(t, analysis_result) ==
    /\ t \in 1..Len(tasks)
    /\ tasks[t].kind = "reanalyze"
    /\ tasks[t].st = "inflight"
    /\ LET id == tasks[t].id
           metadata == [selected_dish |-> tasks[t].selected_dish,
                        selected_serving_size |-> tasks[t].selected_serving_size,
                        number_of_servings |-> tasks[t].number_of_servings]
           stale == IF Exists(id)
                    THEN Put(db[id].result_gemini, "iterations",
                             SubSeq(db[id].result_gemini.iterations, 1,
                                    tasks[t].seen))
                    ELSE NULL
       IN  /\ db' = IF Exists(id)
                    THEN [db EXCEPT ![id].result_gemini =
                              AppendedPayload(stale, analysis_result, metadata, now)]
                    ELSE db
           /\ tasks' = [tasks EXCEPT
                  ![t].st = IF Exists(id) THEN "done" ELSE "failed",
                  ![t].iteration_number =
                      IF Exists(id)
                      THEN Get(db'[id].result_gemini, "current_iteration", 0)
                      ELSE 0,
                  ![t].analysis_data =
                      IF Exists(id) THEN analysis_result ELSE NULL]
           /\ hist' = Event(IF Exists(id) THEN "append" ELSE "append_notfound",
                            id, IF Exists(id) THEN 200 ELSE 500, [task |-> t])
    /\ UNCHANGED <<nextId, now, step1Queue>>

\* Mutant: the metadata of the new iteration is read from the record when
\* the provider returns, not taken from the request.
ReanalyzeItemCompletesRereads(t, analysis_result) ==
    /\ t \in 1..Len(tasks)
    /\ tasks[t].kind = "reanalyze"
    /\ tasks[t].st = "inflight"
    /\ LET id == tasks[t].id
           current == IF Exists(id)
                      THEN get_current_iteration(db[id]).metadata
                      ELSE EmptyDict
           metadata == [selected_dish |-> Get(current, "selected_dish", NoneStr),
                        selected_serving_size |->
                            Get(current, "selected_serving_size", NoneStr),
                        number_of_servings |->
                            Get(current, "number_of_servings", 100)]
       IN  /\ db' = add_metadata_reanalysis_iteration(id, analysis_result,
                                                      metadata, now)
           /\ tasks' = [tasks EXCEPT
                  ![t].st = IF Exists(id) THEN "done" ELSE "failed",
                  ![t].iteration_number =
                      IF Exists(id)
                      THEN Get(db'[id].result_gemini, "current_iteration", 0)
                      ELSE 0,
                  ![t].analysis_data =
                      IF Exists(id) THEN analysis_result ELSE NULL]
           /\ hist' = Event(IF Exists(id) THEN "append" ELSE "append_notfound",
                            id, IF Exists(id) THEN 200 ELSE 500, [task |-> t])
    /\ UNCHANGED <<nextId, now, step1Queue>>

ReanalyzeItemCompletes(t, analysis_result) ==
    /\ t \in 1..Len(tasks)
    /\ tasks[t].kind = "reanalyze"
    /\ tasks[t].st = "inflight"
    /\ LET id == tasks[t].id
           metadata == [selected_dish |-> tasks[t].selected_dish,
                        selected_serving_size |-> tasks[t].selected_serving_size,
                        number_of_servings |-> tasks[t].number_of_servings]
       IN  /\ db' = add_metadata_reanalysis_iteration(id, analysis_result,
                                                      metadata, now)
           /\ tasks' = [tasks EXCEPT
                  ![t].st = IF Exists(id) THEN "done" ELSE "failed",
                  ![t].iteration_number =
                      IF Exists(id)
                      THEN Get(db'[id].result_gemini, "current_iteration", 0)
                      ELSE 0,
                  ![t].analysis_data =
                      IF Exists(id) THEN analysis_result ELSE NULL]
           /\ hist' = Event(IF Exists(id) THEN "append" ELSE "append_notfound",
                            id, IF Exists(id) THEN 200 ELSE 500, [task |-> t])
    /\ UNCHANGED <<nextId, now, step1Queue>>

ReanalyzeItemFails(t) ==
    /\ t \in 1..Len(tasks)
    /\ tasks[t].kind = "reanalyze"
    /\ tasks[t].st = "inflight"
    /\ tasks' = [tasks EXCEPT ![t].st = "failed"]
    /\ hist' = Event("reanalyze_failed", tasks[t].id, 500, [task |-> t])
    /\ UNCHANGED <<db, nextId, now, step1Queue>>

(***************************************************************************)
(* Explicit deletion by id.                                                *)
(***************************************************************************)
DeleteRecord(id) ==
    /\ Exists(id)
    /\ db' = delete_dish_image_query_by_id(id)
    /\ hist' = Event("delete", id, 0, NoArgs)
    /\ UNCHANGED <<nextId, now, step1Queue, tasks>>

Ids == 1..MaxRecords

Next ==
    \/ Tick
    \/ \E user \in Users : UploadDish(user)
    \/ \E id \in Ids, R \in Step1Results : AnalyzeImageBackground(id, R)
    \/ \E id \in Ids : AnalyzeImageBackgroundFails(id)
    \/ \E user \in Users, id \in Ids, d \in DishNames, c \in ComponentLists :
           ConfirmStep1(user, id, d, c)
    \/ \E user \in Users, id \in Ids : ConfirmStep1Rejected(user, id)
    \/ \E t \in 1..MaxTasks, R \in Step2Results :
           TriggerStep2AnalysisBackground(t, R)
    \/ \E t \in 1..MaxTasks : TriggerStep2AnalysisBackgroundFails(t)
    \/ \E user \in Users, id \in Ids, m \in MetadataUpdates :
           UpdateItemMetadata(user, id, m)
    \/ \E user \in Users, id \in Ids : ReanalyzeItem(user, id)
    \/ \E user \in Users, id \in Ids : ReanalyzeItemRejected(user, id)
    \/ \E t \in 1..MaxTasks, R \in BriefResults : ReanalyzeItemCompletes(t, R)
    \/ \E t \in 1..MaxTasks : ReanalyzeItemFails(t)
    \/ \E id \in Ids : DeleteRecord(id)

Spec == Init /\ [][Next]_vars

(***************************************************************************)
(* get_latest_iterations and item_detail: what they return.                *)
(***************************************************************************)
\* Python's s[start:] for any integer start.
SliceFrom(s, start) ==
    LET n == Len(s)
        b == IF start < 0
             THEN (IF n + start < 0 THEN 0 ELSE n + start)
             ELSE (IF start > n THEN n ELSE start)
    IN  SubSeq(s, b + 1, n)

Reversed(s) == [i \in 1..Len(s) |-> s[Len(s) + 1 - i]]

get_latest_iterations(record_id, limit) ==
    IF ~Exists(record_id) \/ Falsy(db[record_id].result_gemini) THEN <<>>
    ELSE IF ~Has(db[record_id].result_gemini, "iterations")
    THEN << [iteration_number |-> 1,
             created_at |-> db[record_id].created_at,
             user_feedback |-> NULL,
             metadata |-> DefaultMetadata(db[record_id].result_gemini),
             analysis |-> db[record_id].result_gemini] >>
    ELSE Reversed(SliceFrom(db[record_id].result_gemini.iterations, 0 - limit))

\* The iterations, current_iteration and total_iterations of item_detail's
\* response for a record the caller owns.
item_data(record) ==
    LET p == record.result_gemini
    IN  IF Falsy(p)
        THEN [iterations |-> <<>>, current_iteration |-> 1,
              total_iterations |-> 1, result_gemini |-> p]
        ELSE IF Has(p, "iterations")
        THEN [iterations |-> p.iterations,
              current_iteration |-> Get(p, "current_iteration", 1),
              total_iterations |-> Len(p.iterations),
              result_gemini |-> p]
        ELSE [iterations |-> <<get_current_iteration(record)>>,
              current_iteration |-> 1,
              total_iterations |-> 1, result_gemini |-> p]

(***************************************************************************)
(* The iteration functions of crud_food_image_query called directly, on a  *)
(* record in any of the shapes the store holds: no payload, a legacy       *)
(* payload, the step-1 payload, a versioned payload.                       *)
(***************************************************************************)
MaxIterations == 3
MaxLimit == 4

CrudPayloads ==
    {NULL} \cup LegacyPayloads
           \cup { [dish_name |-> "", calories_kcal |-> 100] }
           \cup { Step1Payload(R, 0) : R \in Step1Results }
           \cup { initialize_iterations_structure(R, NULL, 0) : R \in BriefResults }

\* Raw analysis results: what the provider returns, with or without a
\* dish_name, and with an empty one.
RawResults ==
    BriefResults \cup Step1Results \cup { [dish_name |-> "", calories_kcal |-> 100] }

\* The explicit metadata initialize_iterations_structure is given when it
\* is not left to derive the default.
ExplicitMetadata ==
    { [selected_dish |-> "Fried Rice", selected_serving_size |-> "1 cup",
       number_of_servings |-> 150, metadata_modified |-> FALSE] }

InitCrud ==
    /\ db \in { [id \in {1} |-> [user_id |-> 1, created_at |-> 0,
                                 result_gemini |-> P]] : P \in CrudPayloads }
    /\ nextId = 2
    /\ now = 0
    /\ step1Queue = {}
    /\ tasks = <<>>
    /\ hist = [op |-> "init", id |-> 0, status |-> 0, a |-> NoArgs,
               rep |-> FALSE]

CrudAddIteration(id, analysis_result, metadata) ==
    /\ Exists(id) /\ Versioned(db[id].result_gemini)
           => Len(db[id].result_gemini.iterations) < MaxIterations
    /\ db' = add_metadata_reanalysis_iteration(id, analysis_result, metadata, now)
    /\ hist' = Event("add_metadata_reanalysis_iteration", id, 0,
                     [result |-> analysis_result, metadata |-> metadata])
    /\ UNCHANGED <<nextId, now, step1Queue, tasks>>

CrudUpdateMetadata(id, metadata) ==
    /\ db' = update_metadata(id, metadata.selected_dish,
                             metadata.selected_serving_size,
                             metadata.number_of_servings, now)
    /\ hist' = Event("crud_update_metadata", id,
                     IF update_metadata_result(id, now) THEN 1 ELSE 0, metadata)
    /\ UNCHANGED <<nextId, now, step1Queue, tasks>>

\* initialize_iterations_structure(analysis_result, metadata): a pure
\* construction, its value is all it leaves.
CrudInitialize(analysis_result, metadata) ==
    /\ hist' = Event("initialize_iterations_structure", 0, 0,
                     [result |-> analysis_result, metadata |-> metadata,
                      returned |-> initialize_iterations_structure(
                                       analysis_result, metadata, now)])
    /\ UNCHANGED <<db, nextId, now, step1Queue, tasks>>

\* Mutant: the read persists the iteration structure it synthesizes for a
\* legacy payload.
CrudGetCurrentIterationUpgrades(id) ==
    /\ Exists(id)
    /\ db' = IF ~Falsy(db[id].result_gemini) /\ ~Versioned(db[id].result_gemini)
             THEN [db EXCEPT ![id].result_gemini =
                       [iterations |-> <<get_current_iteration(db[id])>>,
                        current_iteration |-> 1]]
             ELSE db
    /\ hist' = Event("get_current_iteration", id, 0,
                     [returned |-> get_current_iteration(db[id])])
    /\ UNCHANGED <<nextId, now, step1Queue, tasks>>

\* get_current_iteration(record) on a record loaded from the store.
CrudGetCurrentIteration(id) ==
    /\ Exists(id)
    /\ hist' = Event("get_current_iteration", id, 0,
                     [returned |-> get_current_iteration(db[id])])
    /\ UNCHANGED <<db, nextId, now, step1Queue, tasks>>

\* get_latest_iterations(record_id, limit).
CrudGetLatestIterations(id, limit) ==
    /\ hist' = Event("get_latest_iterations", id, 0,
                     [limit |-> limit,
                      returned |-> get_latest_iterations(id, limit)])
    /\ UNCHANGED <<db, nextId, now, step1Queue, tasks>>

\* item_detail (GET /api/item/{record_id}).
ItemDetail(user, id) ==
    /\ hist' = Event("item_detail", id,
                     IF Visible(user, id) THEN 200 ELSE 404,
                     IF Visible(user, id) THEN item_data(db[id])
                     ELSE lookup_error(user, id))
    /\ UNCHANGED <<db, nextId, now, step1Queue, tasks>>

NextCrud ==
    \/ Tick
    \/ \E id \in 1..2, R \in BriefResults, M \in MetadataUpdates :
           CrudAddIteration(id, R, M)
    \/ \E id \in 1..2, M \in MetadataUpdates : CrudUpdateMetadata(id, M)

SpecCrud == InitCrud /\ [][NextCrud]_vars

(***************************************************************************)
(* The same functions together with the reads and the step-1 write, in     *)
(* any order, within one clock reading; a record without payload may have  *)
(* its step-1 analysis still pending.                                      *)
(***************************************************************************)
InitRead ==
    /\ db \in { [id \in {1} |-> [user_id |-> 1, created_at |-> 0,
                                 result_gemini |-> P]] : P \in CrudPayloads }
    /\ nextId = 2
    /\ now = 0
    /\ step1Queue \in {{}, {1}}
    /\ 1 \in step1Queue => db[1].result_gemini = NULL
    /\ tasks = <<>>
    /\ hist = [op |-> "init", id |-> 0, status |-> 0, a |-> NoArgs,
               rep |-> FALSE]

NextRead ==
    \/ \E id \in 1..2, R \in BriefResults, M \in MetadataUpdates :
           CrudAddIteration(id, R, M)
    \/ \E id \in 1..2, M \in MetadataUpdates : CrudUpdateMetadata(id, M)
    \/ \E R \in RawResults, M \in {NULL} \cup ExplicitMetadata :
           CrudInitialize(R, M)
    \/ \E id \in 1..2 : CrudGetCurrentIteration(id)
    \/ \E id \in 1..2, limit \in 0..MaxLimit : CrudGetLatestIterations(id, limit)
    \/ \E user \in Users, id \in 1..2 : ItemDetail(user, id)
    \/ \E id \in 1..2, R \in Step1Results : AnalyzeImageBackground(id, R)

SpecRead == InitRead /\ [][NextRead]_vars

(***************************************************************************)
(* Requests as they arrive: the body of a PATCH is validated against       *)
(* MetadataUpdate before update_item_metadata runs (FastAPI answers 422    *)
(* itself when the body does not validate), and a confirmed component is   *)
(* validated by constructing ComponentConfirmation.                        *)
(***************************************************************************)
\* number_of_servings values of request bodies, in hundredths: 0.0, 0.01,
\* 0.1, 10.0 and 10.01.
ServingsValues == {0, 1, 10, 1000, 1001}

\* JSON bodies of PATCH /api/item/{record_id}/metadata: the accepted ones,
\* one per servings value, and bodies with a key missing or null.
MetadataBodies ==
    MetadataUpdates
    \cup { [selected_dish |-> "Fried Rice", selected_serving_size |-> "1 cup",
            number_of_servings |-> v] : v \in ServingsValues }
    \cup { [selected_serving_size |-> "1 cup", number_of_servings |-> 100],
           [selected_dish |-> "Fried Rice", number_of_servings |-> 100],
           [selected_dish |-> "Fried Rice", selected_serving_size |-> "1 cup"],
           [selected_dish |-> NoneStr, selected_serving_size |-> "1 cup",
            number_of_servings |-> 100] }

\* Keyword arguments of ComponentConfirmation(...).
ComponentBodies ==
    { [component_name |-> "Rice", selected_serving_size |-> "1 cup",
       number_of_servings |-> v] : v \in ServingsValues }
    \cup { [component_name |-> "Rice", number_of_servings |-> 100] }

\* MetadataUpdate: selected_dish: str, selected_serving_size: str,
\* number_of_servings: float = Field(..., ge=0.1, le=10.0).
MetadataUpdateValid(body) ==
    /\ Has(body, "selected_dish") /\ body.selected_dish # NoneStr
    /\ Has(body, "selected_serving_size") /\ body.selected_serving_size # NoneStr
    /\ Has(body, "number_of_servings")
    /\ 10 <= body.number_of_servings /\ body.number_of_servings <= 1000

\* ComponentConfirmation: component_name: str, selected_serving_size: str,
\* number_of_servings: float = Field(..., ge=0.01, le=10.0).
ComponentConfirmationValid(body) ==
    /\ Has(body, "component_name") /\ body.component_name # NoneStr
    /\ Has(body, "selected_serving_size") /\ body.selected_serving_size # NoneStr
    /\ Has(body, "number_of_servings")
    /\ 1 <= body.number_of_servings /\ body.number_of_servings <= 1000

\* PATCH /api/item/{record_id}/metadata with a JSON body.
PatchItemMetadata(user, id, body) ==
    \/ /\ MetadataUpdateValid(body)
       /\ UpdateItemMetadata(user, id, body)
    \/ /\ ~MetadataUpdateValid(body)
       /\ hist' = Event("update_metadata", id, 422, body)
       /\ UNCHANGED <<db, nextId, now, step1Queue, tasks>>

\* ComponentConfirmation(**body): the model is built (200) or pydantic
\* raises ValidationError (422).
ConfirmComponent(body) ==
    /\ hist' = Event("ComponentConfirmation", 0,
                     IF ComponentConfirmationValid(body) THEN 200 ELSE 422,
                     body)
    /\ UNCHANGED <<db, nextId, now, step1Queue, tasks>>

\* The requests of one caller after another, on a record in any of the
\* stored shapes; re-analysis requests that pass their checks and go on to
\* the provider are part of Spec.
InitApi ==
    /\ db \in { [id \in {1} |-> [user_id |-> 1, created_at |-> 0,
                                 result_gemini |-> P]] : P \in CrudPayloads }
    /\ nextId = 2
    /\ now = 0
    /\ step1Queue = {}
    /\ tasks = <<>>
    /\ hist = [op |-> "init", id |-> 0, status |-> 0, a |-> NoArgs,
               rep |-> FALSE]

NextApi ==
    \/ \E user \in Users, id \in 1..2 : ItemDetail(user, id)
    \/ \E user \in Users, id \in 1..2, body \in MetadataBodies :
           PatchItemMetadata(user, id, body)
    \/ \E body \in ComponentBodies : ConfirmComponent(body)
    \/ \E user \in Users, id \in 1..2 : ReanalyzeItemRejected(user, id)

SpecApi == InitApi /\ [][NextApi]_vars

(***************************************************************************)
(* Date Range Locator.  created_at and target_date are timestamps counted  *)
(* in half days from 2024-03-30 00:00 (even: midnight, odd: noon); the     *)
(* columns are DateTime without time zone.                                 *)
(***************************************************************************)
MaxRows == 2

\* target_date = NULL and dish_position = NULL in the table.
NoneTime == -1
NonePosition == 0

\* The days the timestamps of the model fall on.
Calendar ==
    << [year |-> 2024, month |-> 3, day |-> 30],
       [year |-> 2024, month |-> 3, day |-> 31],
       [year |-> 2024, month |-> 4, day |-> 1] >>

\* func.date: the date part of a timestamp.
date(ts) == Calendar[(ts \div 2) + 1]

\* func.coalesce(target_date, created_at).
coalesce(target_date, created_at) ==
    IF target_date # NoneTime THEN target_date ELSE created_at

\* strftime("%Y-%m-%d"), and f"{year}-{month:02d}-{int(day):02d}".
Pad2(n) == IF n < 10 THEN "0" \o ToString(n) ELSE ToString(n)

strftime(d) == ToString(d.year) \o "-" \o Pad2(d.month) \o "-" \o Pad2(d.day)

\* The rows of the table: rows from before target_date existed (no
\* target_date, no dish_position) and uploaded rows, whose target_date is
\* the midnight of the day they were uploaded to.
Rows ==
    [user_id : Users, created_at : {1, 3, 4}, target_date : {NoneTime},
     dish_position : {NonePosition}, result_gemini : {NULL}]
    \cup
    [user_id : Users, created_at : {1, 3, 4}, target_date : {0, 2},
     dish_position : {1}, result_gemini : {NULL}]

QueryDates == { Calendar[i] : i \in 1..Len(Calendar) }

QueryMonths == { [year |-> 2024, month |-> 3], [year |-> 2024, month |-> 4] }

\* Mutant: a record is matched by either of its two dates.
get_dish_image_queries_by_user_and_dateEitherDate(user_id, query_date) ==
    { id \in DOMAIN db :
        /\ db[id].user_id = user_id
        /\ \/ /\ db[id].target_date # NoneTime
              /\ date(db[id].target_date) = query_date
           \/ date(db[id].created_at) = query_date }

\* The filter of get_dish_image_queries_by_user_and_date: the ids of the
\* rows it selects.
get_dish_image_queries_by_user_and_date(user_id, query_date) ==
    { id \in DOMAIN db :
        /\ db[id].user_id = user_id
        /\ \/ /\ db[id].target_date # NoneTime
              /\ date(db[id].target_date) = query_date
           \/ /\ db[id].target_date = NoneTime
              /\ date(db[id].created_at) = query_date }

\* order_by(dish_position.asc().nulls_last(), created_at.desc()): row a may
\* come before row b.
\* Mutant: within a slot the rows come oldest first (created_at ascending).
OrderedBeforeOldestFirst(a, b) ==
    LET pa == IF a.dish_position = NonePosition THEN 6 ELSE a.dish_position
        pb == IF b.dish_position = NonePosition THEN 6 ELSE b.dish_position
    IN  pa < pb \/ (pa = pb /\ a.created_at <= b.created_at)

OrderedBefore(a, b) ==
    LET pa == IF a.dish_position = NonePosition THEN 6 ELSE a.dish_position
        pb == IF b.dish_position = NonePosition THEN 6 ELSE b.dish_position
    IN  pa < pb \/ (pa = pb /\ a.created_at >= b.created_at)

\* The orders in which the selected rows can be returned (rows equal in
\* both sort keys come in either order).
Orderings(ids) ==
    { s \in [1..Cardinality(ids) -> ids] :
        /\ \A i, j \in 1..Cardinality(ids) : i # j => s[i] # s[j]
        /\ \A i, j \in 1..Cardinality(ids) :
               i < j => OrderedBefore(db[s[i]], db[s[j]]) }

\* Mutant: the month is aggregated by created_at, whatever target_date is.
get_calendar_dataCreatedOnly(user_id, year, month) ==
    LET InMonth == { id \in DOMAIN db :
                       /\ db[id].user_id = user_id
                       /\ date(db[id].created_at).year = year
                       /\ date(db[id].created_at).month = month }
        Keys == { strftime(date(db[id].created_at)) : id \in InMonth }
    IN  [k \in Keys |->
            Cardinality({ id \in InMonth :
                strftime(date(db[id].created_at)) = k })]

\* get_calendar_data of crud_food_image_query (the one the dashboard
\* calls): counts per date of coalesce(target_date, created_at).
get_calendar_data(user_id, year, month) ==
    LET InMonth == { id \in DOMAIN db :
                       /\ db[id].user_id = user_id
                       /\ date(coalesce(db[id].target_date,
                                        db[id].created_at)).year = year
                       /\ date(coalesce(db[id].target_date,
                                        db[id].created_at)).month = month }
        Groups == { date(coalesce(db[id].target_date, db[id].created_at)) :
                      id \in InMonth }
        Keys == { strftime(d) : d \in Groups }
    IN  [k \in Keys |->
            Cardinality({ id \in InMonth :
                strftime(date(coalesce(db[id].target_date,
                                       db[id].created_at))) = k })]

\* get_calendar_data of dish_query_filters: counts per day of target_date.
dish_query_filters_get_calendar_data(user_id, year, month) ==
    LET InMonth == { id \in DOMAIN db :
                       /\ db[id].user_id = user_id
                       /\ db[id].target_date # NoneTime
                       /\ date(db[id].target_date).year = year
                       /\ date(db[id].target_date).month = month }
        Days == { date(db[id].target_date).day : id \in InMonth }
        Key(day) == ToString(year) \o "-" \o Pad2(month) \o "-" \o Pad2(day)
    IN  [k \in { Key(day) : day \in Days } |->
            Cardinality({ id \in InMonth :
                Key(date(db[id].target_date).day) = k })]

MAX_DISHES_PER_DATE == 5

\* The dish_position values of upload requests: two slots and one past
\* the last slot.
DishPositions == {1, 2, 6}

\* The timestamp of midnight of a day of the calendar:
\* datetime.combine(meal_date, datetime.min.time()).
Midnight(d) == 2 * ((CHOOSE i \in 1..Len(Calendar) : Calendar[i] = d) - 1)

\* dish_data of get_date's response, from the rows the day query returned
\* in that order: per slot, the first row with that dish_position
\* (record_id 0 is None).
get_date(date_queries) ==
    [position \in 1..MAX_DISHES_PER_DATE |->
        LET at == { i \in 1..Len(date_queries) :
                      db[date_queries[i]].dish_position = position }
        IN  IF at = {}
            THEN [has_data |-> FALSE, record_id |-> 0]
            ELSE [has_data |-> TRUE,
                  record_id |->
                      date_queries[CHOOSE i \in at : \A j \in at : i <= j]]]

\* The table as it may stand at 2024-04-01 00:00; the session time zone of
\* the database is taken to be UTC, as the code's timestamps are.
InitDates ==
    /\ db \in UNION { [1..n -> Rows] : n \in 0..MaxRows }
    /\ nextId = Len(db) + 1
    /\ now = 4
    /\ step1Queue = {}
    /\ tasks = <<>>
    /\ hist = [op |-> "init", id |-> 0, status |-> 0, a |-> NoArgs,
               rep |-> FALSE]

GetDishImageQueriesByUserAndDate(user, query_date) ==
    /\ \E returned \in Orderings(
                            get_dish_image_queries_by_user_and_date(user, query_date)) :
           hist' = Event("get_dish_image_queries_by_user_and_date", 0, 0,
                         [user |-> user, query_date |-> query_date,
                          returned |-> returned])
    /\ UNCHANGED <<db, nextId, now, step1Queue, tasks>>

GetCalendarData(user, year, month) ==
    /\ hist' = Event("get_calendar_data", 0, 0,
                     [user |-> user, year |-> year, month |-> month,
                      returned |-> get_calendar_data(user, year, month)])
    /\ UNCHANGED <<db, nextId, now, step1Queue, tasks>>

FiltersGetCalendarData(user, year, month) ==
    /\ hist' = Event("dish_query_filters.get_calendar_data", 0, 0,
                     [user |-> user, year |-> year, month |-> month,
                      returned |->
                          dish_query_filters_get_calendar_data(user, year, month)])
    /\ UNCHANGED <<db, nextId, now, step1Queue, tasks>>

\* upload_dish (POST /api/date/{year}/{month}/{day}/upload) with the date
\* and the slot: a position outside 1..MAX_DISHES_PER_DATE is answered 400.
UploadDishOn(user, meal_date, dish_position) ==
    /\ nextId <= MaxRows
    /\ IF dish_position < 1 \/ dish_position > MAX_DISHES_PER_DATE
       THEN /\ hist' = Event("upload_dish", 0, 400,
                             [user |-> user, date |-> meal_date,
                              dish_position |-> dish_position])
            /\ UNCHANGED <<db, nextId, step1Queue>>
       ELSE /\ db' = Append(db, [user_id |-> user,
                                 created_at |-> now,
                                 target_date |-> Midnight(meal_date),
                                 dish_position |-> dish_position,
                                 result_gemini |-> NULL])
            /\ nextId' = nextId + 1
            /\ step1Queue' = step1Queue \cup {nextId}
            /\ hist' = Event("upload_dish", nextId, 200,
                             [user |-> user, date |-> meal_date,
                              dish_position |-> dish_position])
    /\ UNCHANGED <<now, tasks>>

\* get_date (GET /api/date/{year}/{month}/{day}).
GetDate(user, query_date) ==
    /\ \E date_queries \in Orderings(
                   get_dish_image_queries_by_user_and_date(user, query_date)) :
           hist' = Event("get_date", 0, 200,
                         [user |-> user, query_date |-> query_date,
                          returned |-> get_date(date_queries)])
    /\ UNCHANGED <<db, nextId, now, step1Queue, tasks>>

NextDates ==
    \/ \E user \in Users, d \in QueryDates, position \in DishPositions :
           UploadDishOn(user, d, position)
    \/ \E user \in Users, d \in QueryDates : GetDate(user, d)
    \/ \E user \in Users, d \in QueryDates :
           GetDishImageQueriesByUserAndDate(user, d)
    \/ \E user \in Users, m \in QueryMonths :
           GetCalendarData(user, m.year, m.month)
    \/ \E user \in Users, m \in QueryMonths :
           FiltersGetCalendarData(user, m.year, m.month)

SpecDates == InitDates /\ [][NextDates]_vars

(***************************************************************************)
(* Properties.                                                             *)
(***************************************************************************)
Kept == (DOMAIN db) \cap (DOMAIN db')

\* What identifies an iteration: its number, its timestamp and the result
\* it was created for.
Identity(it) ==
    [iteration_number |-> it.iteration_number,
     created_at |-> it.created_at,
     data |-> IF Has(it, "analysis") THEN it.analysis ELSE it.step1_data]

\* C1 (pointer validity): in every persisted state, a payload that has an
\* iterations key has a non-empty iterations and a current_iteration with
\* 1 <= current_iteration <= len(iterations); and no step moves
\* current_iteration of a versioned payload except to the number of an
\* iteration appended in that same step.
PointerValid ==
    \A id \in DOMAIN db :
        LET p == db[id].result_gemini
        IN  Versioned(p) =>
                /\ Len(p.iterations) >= 1
                /\ Has(p, "current_iteration")
                /\ 1 <= p.current_iteration
                /\ p.current_iteration <= Len(p.iterations)

PointerMovesWithAppend ==
    \A id \in Kept :
        LET p == db[id].result_gemini
            q == db'[id].result_gemini
        IN  (Versioned(p) /\ Versioned(q) /\ q.current_iteration # p.current_iteration)
                => /\ Len(q.iterations) = Len(p.iterations) + 1
                   /\ q.current_iteration = Len(q.iterations)

C1_PointerValidity == []PointerValid /\ [][PointerMovesWithAppend]_vars

\* C1 witness: a record on which step 1, a metadata update, a re-analysis
\* append and the step-2 write have all landed.
C1_Witness ==
    \E id \in DOMAIN db :
        LET p == db[id].result_gemini
        IN  /\ Versioned(p)
            /\ Len(p.iterations) >= 2
            /\ p.current_iteration = Len(p.iterations)
            /\ Has(p, "step") /\ p.step = 2

\* C2 (append postcondition): a successful add_metadata_reanalysis_iteration
\* on a payload that already has iterations makes len(iterations) exactly
\* one greater, numbers the new last entry with the new length and sets
\* current_iteration to that number.
AppendPost(id) ==
    LET p == db[id].result_gemini
        q == db'[id].result_gemini
    IN  /\ Versioned(q)
        /\ Len(q.iterations) = Len(p.iterations) + 1
        /\ q.iterations[Len(q.iterations)].iteration_number = Len(q.iterations)
        /\ q.current_iteration = Len(q.iterations)

C2_AppendPostcondition ==
    [][\A t \in 1..MaxTasks, R \in BriefResults :
          (/\ ReanalyzeItemCompletes(t, R)
           /\ Exists(tasks[t].id)
           /\ Versioned(db[tasks[t].id].result_gemini))
              => AppendPost(tasks[t].id)]_vars

\* C2 witness: the last step was an append onto a versioned payload.
C2_Witness ==
    /\ hist.op = "append"
    /\ Exists(hist.id)
    /\ LET p == db[hist.id].result_gemini
       IN  /\ Len(p.iterations) >= 2
           /\ tasks[hist.a.task].seen >= 1
           /\ p.iterations[Len(p.iterations)].iteration_number = Len(p.iterations)

\* C3 (history preservation): whatever the step, a record that is kept
\* keeps every iteration it had at the same index (same number, timestamp
\* and result); and an append leaves the old sequence as a prefix of the
\* new one.
HistoryKept ==
    \A id \in Kept :
        LET p == db[id].result_gemini
            q == db'[id].result_gemini
        IN  Versioned(p) =>
                /\ Versioned(q)
                /\ Len(q.iterations) >= Len(p.iterations)
                /\ \A i \in 1..Len(p.iterations) :
                       Identity(q.iterations[i]) = Identity(p.iterations[i])

AppendKeepsPrefix ==
    \A t \in 1..MaxTasks, R \in BriefResults :
        (/\ ReanalyzeItemCompletes(t, R)
         /\ Exists(tasks[t].id)
         /\ Versioned(db[tasks[t].id].result_gemini))
            => LET p == db[tasks[t].id].result_gemini
                   q == db'[tasks[t].id].result_gemini
               IN  SubSeq(q.iterations, 1, Len(p.iterations)) = p.iterations

C3_HistoryPreservation == [][HistoryKept /\ AppendKeepsPrefix]_vars

\* C3 witness: a record with two iterations on which a metadata update or
\* the step-2 write came after the append.
C3_Witness ==
    /\ hist.op \in {"step2_write", "update_metadata"}
    /\ hist.status \in {0, 200}
    /\ Exists(hist.id)
    /\ Versioned(db[hist.id].result_gemini)
    /\ Len(db[hist.id].result_gemini.iterations) >= 2

\* C4 (concurrent re-analysis loses no data): when two reanalyze_item
\* requests for one record awaited the provider at the same time and both
\* have persisted, both iterations are in the record under distinct
\* numbers, each with the result its request was answered with; the length
\* grew by one per persisted request; and current_iteration is the number
\* given to the request that persisted last.
DoneReanalyses(id) ==
    { t \in 1..Len(tasks) :
        tasks[t].kind = "reanalyze" /\ tasks[t].st = "done" /\ tasks[t].id = id }

\* t1 was requested first and was still awaiting the provider when t2 was
\* requested.
Concurrent(t1, t2) ==
    /\ t1 < t2
    /\ tasks[t1].id = tasks[t2].id
    /\ t1 \in DoneReanalyses(tasks[t1].id)
    /\ t2 \in DoneReanalyses(tasks[t1].id)
    /\ tasks[t2].seen < tasks[t1].iteration_number

C4_ConcurrentReanalysisKeepsBoth ==
    \A t1 \in 1..Len(tasks), t2 \in 1..Len(tasks) :
        (Concurrent(t1, t2) /\ Exists(tasks[t1].id)) =>
            LET id == tasks[t1].id
                p == db[id].result_gemini
                n1 == tasks[t1].iteration_number
                n2 == tasks[t2].iteration_number
                since == { t \in DoneReanalyses(id) :
                             tasks[t].iteration_number > tasks[t1].seen }
            IN  /\ n1 # n2
                /\ {n1, n2} \subseteq 1..Len(p.iterations)
                /\ p.iterations[n1].iteration_number = n1
                /\ p.iterations[n2].iteration_number = n2
                /\ p.iterations[n1].analysis = tasks[t1].analysis_data
                /\ p.iterations[n2].analysis = tasks[t2].analysis_data
                /\ Len(p.iterations) = tasks[t1].seen + Cardinality(since)
                /\ Cardinality(since) >= 2
                /\ \A t \in since : tasks[t].iteration_number <= p.current_iteration
                /\ \E t \in since : tasks[t].iteration_number = p.current_iteration
                /\ (hist.op = "append" /\ hist.id = id)
                       => p.current_iteration = tasks[hist.a.task].iteration_number

\* C4 witness: both requests have persisted, the one requested first
\* persisted last and is current.
C4_Witness ==
    \E t1 \in 1..Len(tasks), t2 \in 1..Len(tasks) :
        /\ Concurrent(t1, t2)
        /\ Exists(tasks[t1].id)
        /\ tasks[t1].seen = tasks[t2].seen
        /\ tasks[t1].iteration_number > tasks[t2].iteration_number
        /\ tasks[t1].analysis_data # tasks[t2].analysis_data
        /\ db[tasks[t1].id].result_gemini.current_iteration
               = tasks[t1].iteration_number

\* C5 (one-way state machine): in no step does a kept record's
\* step1_confirmed go from true to false, its step go from 2 to another
\* value, or its payload go back to null.
TopStep(p) == Get(p, "step", 0)

TopConfirmed(p) == Get(p, "step1_confirmed", FALSE)

OneWay ==
    \A id \in Kept :
        LET p == db[id].result_gemini
            q == db'[id].result_gemini
        IN  /\ TopConfirmed(p) => TopConfirmed(q)
            /\ TopStep(p) = 2 => TopStep(q) = 2
            /\ TopStep(p) = 1 => TopStep(q) \in {1, 2}
            /\ p # NULL => q # NULL

C5_OneWayStateMachine == [][OneWay]_vars

\* C5 witness: a record that reached STEP2_DONE and then took a metadata
\* update or a re-analysis append.
C5_Witness ==
    /\ hist.op \in {"update_metadata", "append"}
    /\ hist.status = 200
    /\ Exists(hist.id)
    /\ TopStep(db[hist.id].result_gemini) = 2
    /\ TopConfirmed(db[hist.id].result_gemini)

\* C6 (step-2 merge targets the same iteration): when the step-2 write
\* lands on a payload whose current_iteration indexes an iteration, the
\* payload gets step = 2, step2_data = R and step1_confirmed = true, the
\* current iteration gets step = 2, the same step2_data and the confirmed
\* dish name and components in its metadata, and len(iterations) and
\* current_iteration are unchanged.
Step2Post(t, R) ==
    LET id == tasks[t].id
        p == db[id].result_gemini
        q == db'[id].result_gemini
        cur == q.iterations[q.current_iteration]
    IN  /\ q.step = 2
        /\ q.step2_data = R
        /\ q.step1_confirmed = TRUE
        /\ Len(q.iterations) = Len(p.iterations)
        /\ q.current_iteration = p.current_iteration
        /\ Has(cur, "step") /\ cur.step = 2
        /\ Has(cur, "step2_data") /\ cur.step2_data = R
        /\ Has(cur.metadata, "confirmed_dish_name")
        /\ cur.metadata.confirmed_dish_name = tasks[t].dish_name
        /\ Has(cur.metadata, "confirmed_components")
        /\ cur.metadata.confirmed_components = tasks[t].components

C6_Step2MergesIntoCurrent ==
    [][\A t \in 1..MaxTasks, R \in Step2Results :
          (/\ TriggerStep2AnalysisBackground(t, R)
           /\ ~Falsy(PayloadOf(tasks[t].id))
           /\ Step2MirrorApplies(PayloadOf(tasks[t].id)))
              => Step2Post(t, R)]_vars

\* C6 witness: the step-2 write landed on a record whose current iteration
\* is the second one.
C6_Witness ==
    /\ hist.op = "step2_write"
    /\ Exists(hist.id)
    /\ LET p == db[hist.id].result_gemini
       IN  /\ p.current_iteration = 2
           /\ Has(p.iterations[2], "step2_data")
           /\ p.iterations[2].step2_data = p.step2_data

\* C7 (optimistic confirmation): an accepted confirm_step1 persists, in the
\* step that starts the step-2 task, the payload it found with
\* step1_confirmed = true, confirmed_dish_name and confirmed_components
\* set at the top level; the payload still has step = 1 and step2_data null
\* while the step-2 task awaits the provider.
ConfirmPost(id, d, c) ==
    LET p == db[id].result_gemini
        q == db'[id].result_gemini
    IN  /\ q.step1_confirmed = TRUE
        /\ q.confirmed_dish_name = d
        /\ q.confirmed_components = c
        /\ q.step = 1
        /\ q.step2_data = NULL
        /\ \A k \in DOMAIN p :
               k \notin {"step1_confirmed", "confirmed_dish_name",
                         "confirmed_components"} => q[k] = p[k]
        /\ tasks'[Len(tasks')].kind = "step2"
        /\ tasks'[Len(tasks')].st = "inflight"
        /\ tasks'[Len(tasks')].id = id

C7_OptimisticConfirmation ==
    [][\A user \in Users, id \in Ids, d \in DishNames, c \in ComponentLists :
          ConfirmStep1(user, id, d, c) => ConfirmPost(id, d, c)]_vars

\* C7 witness: a reader sees step 1 confirmed while step 2 is pending.
C7_Witness ==
    \E t \in 1..Len(tasks) :
        /\ tasks[t].kind = "step2"
        /\ tasks[t].st = "inflight"
        /\ hist.op = "confirm_step1" /\ hist.status = 200 /\ hist.a.task = t
        /\ Exists(tasks[t].id)
        /\ LET p == db[tasks[t].id].result_gemini
           IN  /\ p.step = 1
               /\ p.step1_confirmed = TRUE
               /\ p.step2_data = NULL
               /\ p.confirmed_dish_name = tasks[t].dish_name

\* C9 (update_metadata is an in-place correction): a successful
\* update_metadata leaves len(iterations), current_iteration, every other
\* iteration and every field of the current iteration but its metadata as
\* they were (for a legacy payload: as its one-iteration read view, but
\* for the timestamp the upgrade gives it), and in the metadata sets the
\* three fields to the arguments and metadata_modified to true, leaving
\* its other keys alone.
MetadataKeys ==
    {"selected_dish", "selected_serving_size", "number_of_servings",
     "metadata_modified"}

MetadataPost(id, m) ==
    LET p == db[id].result_gemini
        q == db'[id].result_gemini
        before == IF Versioned(p) THEN p.iterations
                  ELSE <<get_current_iteration(db[id])>>
        c == IF Versioned(p) THEN p.current_iteration ELSE 1
        frame == IF Versioned(p) THEN {"metadata"} ELSE {"metadata", "created_at"}
    IN  /\ Versioned(q)
        /\ Len(q.iterations) = Len(before)
        /\ q.current_iteration = c
        /\ Versioned(p) => \A k \in (DOMAIN p) \ {"iterations"} :
                               Has(q, k) /\ q[k] = p[k]
        /\ \A i \in 1..Len(before) : i # c => q.iterations[i] = before[i]
        /\ DOMAIN q.iterations[c] = DOMAIN before[c]
        /\ \A k \in (DOMAIN before[c]) \ frame : q.iterations[c][k] = before[c][k]
        /\ DOMAIN q.iterations[c].metadata
               = (DOMAIN before[c].metadata) \cup MetadataKeys
        /\ \A k \in (DOMAIN before[c].metadata) \ MetadataKeys :
               q.iterations[c].metadata[k] = before[c].metadata[k]
        /\ q.iterations[c].metadata.selected_dish = m.selected_dish
        /\ q.iterations[c].metadata.selected_serving_size = m.selected_serving_size
        /\ q.iterations[c].metadata.number_of_servings = m.number_of_servings
        /\ q.iterations[c].metadata.metadata_modified = TRUE

C9_MetadataUpdateInPlace ==
    [][\A user \in Users, id \in Ids, m \in MetadataUpdates :
          (/\ UpdateItemMetadata(user, id, m)
           /\ Visible(user, id)
           /\ update_metadata_result(id, now))
              => MetadataPost(id, m)]_vars

\* C9 witness: a metadata update succeeded on a record with an earlier
\* iteration and with step-2 keys in the current iteration's metadata.
C9_Witness ==
    /\ hist.op = "update_metadata"
    /\ hist.status = 200
    /\ Exists(hist.id)
    /\ LET p == db[hist.id].result_gemini
       IN  /\ Len(p.iterations) >= 2
           /\ p.current_iteration = 2
           /\ Has(p.iterations[2].metadata, "confirmed_dish_name")
           /\ p.iterations[2].metadata.selected_dish = hist.a.selected_dish
           /\ p.iterations[2].metadata.metadata_modified = TRUE

\* C10 (update_metadata is idempotent): a metadata update that follows a
\* successful metadata update of the same record with the same arguments,
\* with no other request or task in between, leaves every record's
\* persisted payload as the first one left it.
C10_MetadataUpdateIdempotent ==
    [][\A user \in Users, id \in Ids, m \in MetadataUpdates :
          (/\ UpdateItemMetadata(user, id, m)
           /\ hist.op = "update_metadata"
           /\ hist.status = 200
           /\ hist.id = id
           /\ hist.a = m)
              => db' = db]_vars

\* C10 witness: the second of two identical updates has run, later than the
\* first, which upgraded a legacy payload.
C10_Witness ==
    /\ hist.rep
    /\ hist.status = 200
    /\ Exists(hist.id)
    /\ LET p == db[hist.id].result_gemini
       IN  /\ Has(p.iterations[1], "analysis")
           /\ p.iterations[1].analysis \in LegacyPayloads
           /\ p.iterations[1].created_at < now
           /\ p.iterations[1].metadata.selected_dish = hist.a.selected_dish

\* C8 (legacy upgrade on append): add_metadata_reanalysis_iteration on a
\* record whose payload P has no iterations key, with result R and metadata
\* M, leaves two iterations: iteration 1 with analysis P (the empty
\* analysis when the payload was absent) and the default metadata read from
\* it, iteration 2 with analysis R and metadata M plus metadata_modified =
\* true; current_iteration is 2.
LegacyAppendPost(id, R, M) ==
    LET p == db[id].result_gemini
        q == db'[id].result_gemini
        kept == IF p = NULL THEN EmptyDict ELSE p
    IN  /\ Versioned(q)
        /\ Len(q.iterations) = 2
        /\ q.iterations[1].iteration_number = 1
        /\ q.iterations[1].analysis = kept
        /\ q.iterations[1].metadata.selected_dish
               = (IF Has(kept, "dish_name") THEN kept.dish_name ELSE "Unknown")
        /\ q.iterations[1].metadata.metadata_modified = FALSE
        /\ q.iterations[2].iteration_number = 2
        /\ q.iterations[2].analysis = R
        /\ DOMAIN q.iterations[2].metadata = (DOMAIN M) \cup {"metadata_modified"}
        /\ \A k \in DOMAIN M : q.iterations[2].metadata[k] = M[k]
        /\ q.iterations[2].metadata.metadata_modified = TRUE
        /\ q.current_iteration = 2

C8_LegacyUpgradeOnAppend ==
    [][\A id \in 1..2, R \in BriefResults, M \in MetadataUpdates :
          (/\ CrudAddIteration(id, R, M)
           /\ Exists(id)
           /\ ~Versioned(db[id].result_gemini))
              => LegacyAppendPost(id, R, M)]_vars

\* C8 witness: the append ran on the legacy payload with dish_name "Soup"
\* and the result with dish_name "Soup v2".
C8_Witness ==
    /\ hist.op = "add_metadata_reanalysis_iteration"
    /\ Exists(hist.id)
    /\ LET q == db[hist.id].result_gemini
       IN  /\ Len(q.iterations) = 2
           /\ q.iterations[1].analysis \in LegacyPayloads
           /\ q.iterations[1].analysis.calories_kcal = 100
           /\ Has(q.iterations[1].analysis, "dish_name")
           /\ q.iterations[1].analysis.dish_name = "Soup"
           /\ q.iterations[2].analysis = hist.a.result
           /\ q.iterations[2].analysis.dish_name = "Soup v2"
           /\ q.current_iteration = 2

\* C11 (background analysis never raises and never resurrects): when
\* trigger_step2_analysis_background comes back from the provider and the
\* record does not exist or has no payload, the store is left exactly as it
\* was (nothing persisted, the record not recreated) and the task ends by
\* a plain return, not by an exception.
Step2NoopPost(t) ==
    /\ db' = db
    /\ ~Exists(tasks[t].id) => tasks[t].id \notin DOMAIN db'
    /\ tasks'[t].st = "noop"

C11_Step2NeverResurrects ==
    [][\A t \in 1..MaxTasks, R \in Step2Results :
          (/\ TriggerStep2AnalysisBackground(t, R)
           /\ Falsy(PayloadOf(tasks[t].id)))
              => Step2NoopPost(t)]_vars

\* C11 witness: the step-2 task came back for a record that was confirmed
\* and then deleted while the provider call was in flight.
C11_Witness ==
    /\ hist.op = "step2_noop"
    /\ ~Exists(hist.id)
    /\ tasks[hist.a.task].kind = "step2"
    /\ tasks[hist.a.task].st = "noop"

\* C12 (provider failure leaves the record unchanged): when the provider
\* call of step 1, of step 2 or of a re-analysis fails, every record's
\* persisted payload stays exactly as it was (null after a failed step 1, no
\* iteration appended, no error flag), no new task is started and the
\* failed one is not scheduled again; a failed task stays failed.
FailureFrame ==
    /\ db' = db
    /\ Len(tasks') = Len(tasks)
    /\ step1Queue' \subseteq step1Queue
    /\ \A t \in 1..Len(tasks) :
           tasks[t].st # "inflight" => tasks'[t] = tasks[t]

ProviderFailurePost ==
    /\ \A id \in Ids :
           AnalyzeImageBackgroundFails(id) =>
               /\ FailureFrame
               /\ id \notin step1Queue'
               /\ Exists(id) => db'[id].result_gemini = NULL
    /\ \A t \in 1..MaxTasks :
           (TriggerStep2AnalysisBackgroundFails(t) \/ ReanalyzeItemFails(t)) =>
               /\ FailureFrame
               /\ tasks'[t].st = "failed"

NoRetry ==
    /\ \A t \in 1..Len(tasks) :
           tasks[t].st = "failed" => tasks'[t].st = "failed"
    /\ \A id \in DOMAIN db : id \notin step1Queue => id \notin step1Queue'

C12_ProviderFailureLeavesRecord == [][ProviderFailurePost /\ NoRetry]_vars

\* C12 witness: on one record, confirmed and then corrected, both the
\* step-2 call and a re-analysis call have failed; the record still has
\* its single step-1 iteration and the optimistic confirmation.
C12_Witness ==
    \E t1 \in 1..Len(tasks), t2 \in 1..Len(tasks) :
        /\ tasks[t1].kind = "step2" /\ tasks[t1].st = "failed"
        /\ tasks[t2].kind = "reanalyze" /\ tasks[t2].st = "failed"
        /\ hist.op \in {"step2_failed", "reanalyze_failed"}
        /\ Exists(hist.id)
        /\ LET p == db[hist.id].result_gemini
           IN  /\ Len(p.iterations) = 1
               /\ p.step = 1
               /\ p.step1_confirmed = TRUE
               /\ p.step2_data = NULL

\* C13 (iteration_number contiguity): in every persisted payload that has
\* iterations, the entry at position i (counted from 1) has
\* iteration_number i; and no step changes the number of an entry that
\* stays in the record.
Contiguous ==
    \A id \in DOMAIN db :
        LET p == db[id].result_gemini
        IN  Versioned(p) =>
                \A i \in 1..Len(p.iterations) :
                    p.iterations[i].iteration_number = i

NumbersNeverRewritten ==
    \A id \in Kept :
        LET p == db[id].result_gemini
            q == db'[id].result_gemini
        IN  (Versioned(p) /\ Versioned(q)) =>
                \A i \in 1..Len(p.iterations) :
                    i <= Len(q.iterations) =>
                        q.iterations[i].iteration_number
                            = p.iterations[i].iteration_number

C13_IterationNumbersContiguous ==
    []Contiguous /\ [][NumbersNeverRewritten]_vars

\* C13 witness: a legacy record upgraded by a metadata update and then
\* re-analysed twice: three iterations, the first one synthesized.
C13_Witness ==
    \E id \in DOMAIN db :
        LET p == db[id].result_gemini
        IN  /\ Versioned(p)
            /\ Len(p.iterations) = 3
            /\ Has(p.iterations[1], "analysis")
            /\ p.iterations[1].analysis \in LegacyPayloads
            /\ p.iterations[3].iteration_number = 3

\* C14 (first-analysis construction): for every raw result R,
\* initialize_iterations_structure(R) returns exactly one iteration, with
\* iteration_number 1, analysis R and the default metadata (selected_dish
\* the value of R's dish_name key, "Unknown" when R has no such key;
\* selected_serving_size null; number_of_servings 1.0; metadata_modified
\* false), and current_iteration 1; and the step-1 write of
\* analyze_image_background persists step 1, step1_confirmed false,
\* step2_data null, one iteration with step1_data R and current_iteration 1.
InitializePost(R, s) ==
    /\ DOMAIN s = {"iterations", "current_iteration"}
    /\ Len(s.iterations) = 1
    /\ s.iterations[1].iteration_number = 1
    /\ s.iterations[1].analysis = R
    /\ s.iterations[1].metadata =
           [selected_dish |-> IF "dish_name" \in DOMAIN R THEN R.dish_name
                              ELSE "Unknown",
            selected_serving_size |-> NoneStr,
            number_of_servings |-> 100,
            metadata_modified |-> FALSE]
    /\ s.current_iteration = 1

Step1Post(id, R) ==
    LET q == db'[id].result_gemini
    IN  /\ q.step = 1
        /\ q.step1_confirmed = FALSE
        /\ q.step2_data = NULL
        /\ q.step1_data = R
        /\ Len(q.iterations) = 1
        /\ q.iterations[1].iteration_number = 1
        /\ q.iterations[1].step1_data = R
        /\ q.iterations[1].step = 1
        /\ q.iterations[1].step2_data = NULL
        /\ q.current_iteration = 1

C14_FirstAnalysisConstruction ==
    [][/\ \A R \in RawResults :
              CrudInitialize(R, NULL) => InitializePost(R, hist'.a.returned)
       /\ \A id \in 1..2, R \in Step1Results :
              (AnalyzeImageBackground(id, R) /\ Exists(id)) => Step1Post(id, R)]_vars

\* C14 witness: initialize_iterations_structure was applied to a result
\* whose dish_name is the empty string.
C14_Witness ==
    /\ hist.op = "initialize_iterations_structure"
    /\ hist.a.metadata = NULL
    /\ Has(hist.a.result, "dish_name")
    /\ hist.a.result.dish_name = ""
    /\ hist.a.returned.iterations[1].analysis = hist.a.result

\* C15 (legacy read view): for a record whose payload P is non-empty and
\* has no iterations key, get_current_iteration returns an iteration with
\* iteration_number 1, analysis P and metadata selected_dish = P's
\* dish_name ("Unknown" when P has no dish_name key),
\* selected_serving_size null, number_of_servings 1.0, metadata_modified
\* false.
LegacyViewPost(P, it) ==
    /\ it # NULL
    /\ it.iteration_number = 1
    /\ it.analysis = P
    /\ it.metadata =
           [selected_dish |-> IF "dish_name" \in DOMAIN P THEN P.dish_name
                              ELSE "Unknown",
            selected_serving_size |-> NoneStr,
            number_of_servings |-> 100,
            metadata_modified |-> FALSE]

C15_LegacyReadView ==
    [][\A id \in 1..2 :
          (/\ CrudGetCurrentIteration(id)
           /\ ~Falsy(db[id].result_gemini)
           /\ ~Versioned(db[id].result_gemini))
              => LegacyViewPost(db[id].result_gemini, hist'.a.returned)]_vars

\* C15 witness: the read view of a legacy payload without a dish_name key
\* was taken.
C15_Witness ==
    /\ hist.op = "get_current_iteration"
    /\ Exists(hist.id)
    /\ ~Versioned(db[hist.id].result_gemini)
    /\ ~Has(db[hist.id].result_gemini, "dish_name")
    /\ hist.a.returned # NULL
    /\ hist.a.returned.metadata.selected_dish = "Unknown"

\* C16 (reads never upgrade storage): get_current_iteration,
\* get_latest_iterations and item_detail leave every record's persisted
\* payload as it was; a legacy payload changes only in a step of
\* update_metadata or add_metadata_reanalysis_iteration, and such a step
\* on a legacy payload P persists the iteration structure with P as the
\* analysis of iteration 1.
ReadsLeaveStore ==
    /\ \A id \in 1..2 : CrudGetCurrentIteration(id) => db' = db
    /\ \A id \in 1..2, limit \in 0..MaxLimit :
           CrudGetLatestIterations(id, limit) => db' = db
    /\ \A user \in Users, id \in 1..2 : ItemDetail(user, id) => db' = db

IsLegacy(p) == ~Falsy(p) /\ ~Versioned(p)

LegacyChangesOnlyByMutation ==
    \A id \in Kept :
        (IsLegacy(db[id].result_gemini)
             /\ db'[id].result_gemini # db[id].result_gemini)
            => /\ hist'.op \in {"crud_update_metadata",
                                "add_metadata_reanalysis_iteration"}
               /\ hist'.id = id

MutationUpgradesLegacy ==
    \A id \in 1..2, M \in MetadataUpdates :
        ((CrudUpdateMetadata(id, M)
              \/ \E R \in BriefResults : CrudAddIteration(id, R, M))
            /\ Exists(id) /\ IsLegacy(db[id].result_gemini))
            => /\ Versioned(db'[id].result_gemini)
               /\ db'[id].result_gemini.iterations[1].iteration_number = 1
               /\ db'[id].result_gemini.iterations[1].analysis
                      = db[id].result_gemini

C16_ReadsNeverUpgradeStorage ==
    [][ReadsLeaveStore /\ LegacyChangesOnlyByMutation
                       /\ MutationUpgradesLegacy]_vars

\* C16 witness: the read view of a legacy payload has just been returned
\* and the stored payload is still the legacy one.
C16_Witness ==
    /\ hist.op \in {"get_current_iteration", "get_latest_iterations"}
    /\ Exists(hist.id)
    /\ IsLegacy(db[hist.id].result_gemini)
    /\ hist.a.returned # NULL
    /\ hist.a.returned # <<>>

\* C18 (update_metadata fails without effect): when the record does not
\* exist, its payload is absent, or current_iteration does not index an
\* iteration, update_metadata returns false and every persisted record is
\* left exactly as it was.
MetadataRefused(id) ==
    \/ ~Exists(id)
    \/ Falsy(db[id].result_gemini)
    \/ /\ Versioned(db[id].result_gemini)
       /\ LET p == db[id].result_gemini
          IN  ~(/\ 1 <= Get(p, "current_iteration", 1)
                /\ Get(p, "current_iteration", 1) <= Len(p.iterations))

C18_MetadataUpdateFailsWithoutEffect ==
    [][\A id \in 1..2, M \in MetadataUpdates :
          (CrudUpdateMetadata(id, M) /\ MetadataRefused(id))
              => (db' = db /\ hist'.status = 0)]_vars

\* C18 witness: update_metadata was refused on an existing record whose
\* payload is absent.
C18_Witness ==
    /\ hist.op = "crud_update_metadata"
    /\ hist.status = 0
    /\ Exists(hist.id)
    /\ db[hist.id].result_gemini = NULL

\* C17 (get_latest_iterations returns the last min(limit, len) iterations):
\* for every limit >= 0 and every versioned payload, the call returns
\* exactly min(limit, len(iterations)) iterations, the last ones of the
\* sequence, most recent first.
LatestPost(id, limit, returned) ==
    LET iterations == db[id].result_gemini.iterations
        n == Len(iterations)
    IN  /\ Len(returned) = (IF limit < n THEN limit ELSE n)
        /\ \A i \in 1..Len(returned) : returned[i] = iterations[n + 1 - i]

C17_LatestIterationsAtMostLimit ==
    [][\A id \in 1..2, limit \in 0..MaxLimit :
          (/\ CrudGetLatestIterations(id, limit)
           /\ Exists(id)
           /\ ~Falsy(db[id].result_gemini)
           /\ Versioned(db[id].result_gemini))
              => LatestPost(id, limit, hist'.a.returned)]_vars

\* C19 (per-record date fallback): get_dish_image_queries_by_user_and_date
\* (user, d) returns, each once, exactly the user's records whose
\* target_date, when it is not null, falls on d, and whose created_at falls
\* on d when target_date is null; a record with a non-null target_date on
\* another day is not returned even when its created_at falls on d, and no
\* record of another user is returned.
DayViewPost(user, d, returned) ==
    LET ids == { returned[i] : i \in 1..Len(returned) }
    IN  /\ Cardinality(ids) = Len(returned)
        /\ ids = { id \in DOMAIN db :
                     /\ db[id].user_id = user
                     /\ date(coalesce(db[id].target_date, db[id].created_at)) = d }
        /\ \A id \in DOMAIN db :
               (db[id].target_date # NoneTime /\ date(db[id].target_date) # d)
                   => id \notin ids
        /\ \A id \in ids : db[id].user_id = user

C19_PerRecordDateFallback ==
    [][\A user \in Users, d \in QueryDates :
          GetDishImageQueriesByUserAndDate(user, d)
              => DayViewPost(user, d, hist'.a.returned)]_vars

\* C19 witness: the day view of a date was returned with the user's
\* record created on that date without target_date, and without their
\* record created on that date for another target date.
C19_Witness ==
    /\ hist.op = "get_dish_image_queries_by_user_and_date"
    /\ Len(hist.a.returned) = 1
    /\ db[hist.a.returned[1]].target_date = NoneTime
    /\ \E id \in DOMAIN db :
           /\ db[id].user_id = hist.a.user
           /\ db[id].target_date # NoneTime
           /\ date(db[id].target_date) # hist.a.query_date
           /\ date(db[id].created_at) = hist.a.query_date
           /\ id # hist.a.returned[1]

\* C20 (month aggregation coalesces): get_calendar_data(user, year, month)
\* maps each date d of that month on which at least one of the user's
\* records falls by coalesce(target_date, created_at) to the number of
\* those records, under the key "YYYY-MM-DD", and has no other key; so a
\* record without target_date is counted under its created_at date.
\* Stated of both functions of that name.
CalendarPost(user, year, month, returned) ==
    LET Count(d) == Cardinality({ id \in DOMAIN db :
                        /\ db[id].user_id = user
                        /\ date(coalesce(db[id].target_date,
                                         db[id].created_at)) = d })
        InMonth == { d \in QueryDates : d.year = year /\ d.month = month }
    IN  /\ DOMAIN returned = { strftime(d) : d \in { e \in InMonth : Count(e) > 0 } }
        /\ \A d \in InMonth : Count(d) > 0 => returned[strftime(d)] = Count(d)

CalendarCoalesces ==
    \A user \in Users, m \in QueryMonths :
        GetCalendarData(user, m.year, m.month)
            => CalendarPost(user, m.year, m.month, hist'.a.returned)

FiltersCalendarCoalesces ==
    \A user \in Users, m \in QueryMonths :
        FiltersGetCalendarData(user, m.year, m.month)
            => CalendarPost(user, m.year, m.month, hist'.a.returned)

C20_MonthAggregationCoalesces ==
    [][CalendarCoalesces /\ FiltersCalendarCoalesces]_vars

\* C21 (servings bounds): at both validation boundaries, MetadataUpdate for
\* a metadata update and ComponentConfirmation for a step-1 confirmation, a
\* body that is otherwise well formed is accepted exactly when
\* 0.01 <= number_of_servings <= 10.0 (0.01 accepted, 0.0 and 10.01
\* rejected), and a rejected request leaves every record as it was.
ServingsInBounds(body) ==
    1 <= body.number_of_servings /\ body.number_of_servings <= 1000

MetadataBoundary ==
    \A user \in Users, id \in 1..2, body \in MetadataBodies :
        (/\ PatchItemMetadata(user, id, body)
         /\ Has(body, "number_of_servings")
         /\ Has(body, "selected_dish") /\ body.selected_dish # NoneStr
         /\ Has(body, "selected_serving_size"))
            => /\ (hist'.status # 422) <=> ServingsInBounds(body)
               /\ hist'.status = 422 => db' = db

ComponentBoundary ==
    \A body \in ComponentBodies :
        (/\ ConfirmComponent(body)
         /\ Has(body, "number_of_servings")
         /\ Has(body, "selected_serving_size"))
            => /\ (hist'.status # 422) <=> ServingsInBounds(body)
               /\ hist'.status = 422 => db' = db

C21_ServingsBounds == [][MetadataBoundary /\ ComponentBoundary]_vars

\* C22 (not-found is indistinguishable from not-owned): a request of
\* item_detail, update_item_metadata or reanalyze_item by a user for a
\* record of another user is answered exactly as a request for an id that
\* does not exist, 404 "Record not found", and leaves every payload as it
\* was (a body that does not validate is answered 422 before the lookup, in
\* both cases alike).
RecordNotFound == [status_code |-> 404, detail |-> "Record not found"]

NotVisiblePost ==
    /\ hist'.status = 404
    /\ hist'.a = RecordNotFound
    /\ db' = db

C22_NotFoundIsNotOwned ==
    [][\A user \in Users, id \in 1..2 :
          ((\/ ItemDetail(user, id)
            \/ \E body \in MetadataBodies :
                   MetadataUpdateValid(body) /\ PatchItemMetadata(user, id, body)
            \/ ReanalyzeItemRejected(user, id))
           /\ (~Exists(id) \/ db[id].user_id # user))
              => NotVisiblePost]_vars

\* C22 witness: user 2 asked for the record of user 1, which holds a
\* payload, and was answered as for a missing record.
C22_Witness ==
    /\ hist.op \in {"item_detail", "update_metadata", "reanalyze_item"}
    /\ hist.status = 404
    /\ Exists(hist.id)
    /\ db[hist.id].user_id = 1
    /\ db[hist.id].result_gemini # NULL
    /\ hist.a = RecordNotFound

\* C23 (metadata updates require non-empty strings): a metadata update
\* whose selected_dish or selected_serving_size is missing, null or the
\* empty string is rejected (it is not answered 200) and leaves every
\* record, so the current iteration's metadata, as it was.
LacksString(body, k) == ~Has(body, k) \/ FalsyStr(body[k])

C23_MetadataRequiresNonEmptyStrings ==
    [][\A user \in Users, id \in 1..2, body \in MetadataBodies :
          (/\ PatchItemMetadata(user, id, body)
           /\ \/ LacksString(body, "selected_dish")
              \/ LacksString(body, "selected_serving_size"))
              => /\ hist'.status # 200
                 /\ db' = db]_vars

\* C24 (iteration shape exclusivity): in every persisted payload, no
\* iteration carries both an analysis payload and two-step fields (step,
\* step1_data, step2_data); so a step-2 write that lands after a re-analysis
\* appended a newer iteration puts no step or step2_data into that
\* analysis-shaped iteration.
TwoStepFields == {"step", "step1_data", "step2_data"}

C24_IterationShapeExclusive ==
    \A id \in DOMAIN db :
        LET p == db[id].result_gemini
        IN  Versioned(p) =>
                \A i \in 1..Len(p.iterations) :
                    ~(/\ Has(p.iterations[i], "analysis")
                      /\ (DOMAIN p.iterations[i]) \cap TwoStepFields # {})

\* C25 (a refused update is answered 400): when update_metadata returns
\* false for an existing record of the caller (its payload is still null,
\* for example), update_item_metadata answers 400 "Failed to update
\* metadata"; it answers 500 only when the update raises.
C25_RefusedUpdateIs400 ==
    [][\A user \in Users, id \in 1..2, body \in MetadataBodies :
          (/\ PatchItemMetadata(user, id, body)
           /\ MetadataUpdateValid(body)
           /\ Visible(user, id)
           /\ ~update_metadata_result(id, now))
              => hist'.status = 400]_vars

\* C26 (re-analysis aborts on incomplete metadata): reanalyze_item on a
\* record of the caller whose current iteration is absent, or whose
\* metadata lacks a non-empty selected_dish or selected_serving_size, is
\* answered 400, starts no provider call and leaves every record as it was
\* (no iteration appended).
IncompleteMetadata(id) ==
    LET current_iter == get_current_iteration(db[id])
    IN  \/ current_iter = NULL
        \/ ~Has(current_iter, "metadata")
        \/ LacksString(current_iter.metadata, "selected_dish")
        \/ LacksString(current_iter.metadata, "selected_serving_size")

C26_ReanalysisAbortsOnIncompleteMetadata ==
    [][\A user \in Users, id \in Ids :
          (/\ ReanalyzeItem(user, id) \/ ReanalyzeItemRejected(user, id)
           /\ Visible(user, id)
           /\ IncompleteMetadata(id))
              => /\ hist'.status = 400
                 /\ tasks' = tasks
                 /\ db' = db]_vars

\* C26 witness: re-analysis was asked of a fresh step-1 record, whose one
\* iteration has empty metadata, and refused.
C26_Witness ==
    /\ hist.op = "reanalyze_item"
    /\ hist.status = 400
    /\ Exists(hist.id)
    /\ Versioned(db[hist.id].result_gemini)
    /\ Len(db[hist.id].result_gemini.iterations) = 1
    /\ db[hist.id].result_gemini.iterations[1].metadata = EmptyDict
    /\ \A t \in 1..Len(tasks) : tasks[t].kind # "reanalyze"

\* C27 (last upload wins per slot): an upload to a (user, date,
\* dish_position) creates a new record and leaves every record there was,
\* those of that slot included, as it was; get_date reports for each slot
\* 1..5 a matching record with the latest created_at among the matching
\* ones, and has_data = false for a slot with no matching record.
Matching(user, d, position) ==
    { id \in DOMAIN db :
        /\ db[id].user_id = user
        /\ db[id].dish_position = position
        /\ date(coalesce(db[id].target_date, db[id].created_at)) = d }

UploadKeepsOld ==
    \A user \in Users, d \in QueryDates, position \in 1..MAX_DISHES_PER_DATE :
        UploadDishOn(user, d, position)
            => /\ DOMAIN db' = (DOMAIN db) \cup {nextId}
               /\ nextId \notin DOMAIN db
               /\ \A id \in DOMAIN db : db'[id] = db[id]
               /\ db'[nextId].user_id = user
               /\ db'[nextId].dish_position = position
               /\ date(db'[nextId].target_date) = d

LatestPerSlot ==
    \A user \in Users, d \in QueryDates :
        GetDate(user, d)
            => \A position \in 1..MAX_DISHES_PER_DATE :
                   LET slot == hist'.a.returned[position]
                       M == Matching(user, d, position)
                   IN  IF M = {}
                       THEN slot.has_data = FALSE
                       ELSE /\ slot.has_data = TRUE
                            /\ slot.record_id \in M
                            /\ \A id \in M :
                                   db[id].created_at <= db[slot.record_id].created_at

C27_LastUploadWinsPerSlot == [][UploadKeepsOld /\ LatestPerSlot]_vars

\* C27 witness: a slot holds an older record and one uploaded now, get_date
\* reported the newer one for it, and no data for slot 2.
C27_Witness ==
    /\ hist.op = "get_date"
    /\ hist.a.returned[1].has_data
    /\ db[hist.a.returned[1].record_id].created_at = now
    /\ db[hist.a.returned[1].record_id].target_date # NoneTime
    /\ \E id \in Matching(hist.a.user, hist.a.query_date, 1) :
           db[id].created_at < now
    /\ hist.a.returned[1].record_id \in step1Queue
    /\ ~hist.a.returned[2].has_data

\* C28 (newest is always current): in every persisted payload that has
\* iterations, current_iteration = len(iterations); no step moves the
\* pointer of a kept record to an older iteration; and a metadata update
\* or a step-2 write changes no iteration but the last of the sequence.
NewestIsCurrent ==
    \A id \in DOMAIN db :
        LET p == db[id].result_gemini
        IN  Versioned(p) => p.current_iteration = Len(p.iterations)

PointerNeverBack ==
    \A id \in Kept :
        LET p == db[id].result_gemini
            q == db'[id].result_gemini
        IN  (Versioned(p) /\ Versioned(q))
                => q.current_iteration >= p.current_iteration

InPlaceWritesHitLast ==
    (hist'.op \in {"update_metadata", "step2_write"} /\ Exists(hist'.id))
        => LET p == db[hist'.id].result_gemini
               q == db'[hist'.id].result_gemini
           IN  (Versioned(p) /\ Versioned(q))
                   => /\ Len(q.iterations) = Len(p.iterations)
                      /\ \A i \in 1..Len(p.iterations) :
                             q.iterations[i] # p.iterations[i]
                                 => i = Len(p.iterations)

C28_NewestIsCurrent ==
    []NewestIsCurrent /\ [][PointerNeverBack /\ InPlaceWritesHitLast]_vars

\* C28 witness: after two appends a metadata update landed on the third,
\* the last, iteration.
C28_Witness ==
    /\ hist.op = "update_metadata"
    /\ hist.status = 200
    /\ Exists(hist.id)
    /\ LET p == db[hist.id].result_gemini
       IN  /\ Len(p.iterations) = 3
           /\ p.current_iteration = 3
           /\ p.iterations[3].metadata.selected_dish = hist.a.selected_dish
           /\ Has(p.iterations[3], "analysis")

\* C29 (re-analysis uses the metadata read at request time): the request
\* takes selected_dish, selected_serving_size and number_of_servings from
\* the current iteration before the provider call; nothing changes what a
\* request has taken; the iteration it appends carries exactly those three
\* values; and a metadata update that commits while the call is in flight
\* changes the iteration that was current, not what the request appends.
RequestFields == {"selected_dish", "selected_serving_size", "number_of_servings"}

TakenAtRequest ==
    \A user \in Users, id \in Ids :
        ReanalyzeItem(user, id)
            => LET metadata == get_current_iteration(db[id]).metadata
                   t == Len(tasks')
               IN  /\ t = Len(tasks) + 1
                   /\ \A k \in RequestFields : tasks'[t][k] = metadata[k]

TakenIsKept ==
    \A t \in 1..Len(tasks) :
        tasks[t].kind = "reanalyze"
            => \A k \in RequestFields : tasks'[t][k] = tasks[t][k]

AppendedCarriesTaken ==
    \A t \in 1..MaxTasks, R \in BriefResults :
        (ReanalyzeItemCompletes(t, R) /\ Exists(tasks[t].id))
            => LET q == db'[tasks[t].id].result_gemini
                   new == q.iterations[Len(q.iterations)]
               IN  /\ q.current_iteration = Len(q.iterations)
                   /\ \A k \in RequestFields : new.metadata[k] = tasks[t][k]

UpdateInFlightHitsPrevious ==
    \A user \in Users, id \in Ids, m \in MetadataUpdates :
        (/\ UpdateItemMetadata(user, id, m)
         /\ hist'.status = 200
         /\ \E t \in 1..Len(tasks) :
                tasks[t].kind = "reanalyze" /\ tasks[t].st = "inflight"
                    /\ tasks[t].id = id)
            => /\ tasks' = tasks
               /\ Len(db'[id].result_gemini.iterations)
                      = Len(db[id].result_gemini.iterations)

C29_ReanalysisUsesRequestTimeMetadata ==
    [][TakenAtRequest /\ TakenIsKept /\ AppendedCarriesTaken
                      /\ UpdateInFlightHitsPrevious]_vars

\* C29 witness: a metadata update committed while the provider call was in
\* flight; the appended iteration has the servings the request took (1.5),
\* the iteration before it has those of the update (1.0).
C29_Witness ==
    /\ hist.op = "append"
    /\ Exists(hist.id)
    /\ LET p == db[hist.id].result_gemini
           n == Len(p.iterations)
       IN  /\ n >= 2
           /\ tasks[hist.a.task].seen = n - 1
           /\ p.iterations[n].metadata.number_of_servings = 150
           /\ p.iterations[n - 1].metadata.number_of_servings = 100
           /\ p.iterations[n - 1].metadata.metadata_modified = TRUE
           /\ p.iterations[n].metadata.selected_serving_size
                  # p.iterations[n - 1].metadata.selected_serving_size

\* C30 (calendar and day view agree): for every user, month and table, and
\* every date d of that month, the count get_calendar_data(user, year,
\* month) reports for d (0 when d is absent) is the number of records
\* get_dish_image_queries_by_user_and_date(user, d) returns.
CountFor(returned, d) ==
    IF strftime(d) \in DOMAIN returned THEN returned[strftime(d)] ELSE 0

C30_CalendarAgreesWithDayView ==
    [][\A user \in Users, m \in QueryMonths :
          GetCalendarData(user, m.year, m.month)
              => \A d \in QueryDates :
                     (d.year = m.year /\ d.month = m.month)
                         => CountFor(hist'.a.returned, d)
                                = Cardinality(
                                      get_dish_image_queries_by_user_and_date(
                                          user, d))]_vars

\* C30 witness: the calendar counted two records on one date, one without
\* target_date created that day and one uploaded to it on a later day.
C30_Witness ==
    /\ hist.op = "get_calendar_data"
    /\ \E k \in DOMAIN hist.a.returned : hist.a.returned[k] = 2
    /\ \E i, j \in DOMAIN db :
           /\ db[i].user_id = hist.a.user /\ db[j].user_id = hist.a.user
           /\ db[i].target_date = NoneTime
           /\ db[j].target_date # NoneTime
           /\ date(db[j].target_date) = date(db[i].created_at)
           /\ date(db[j].created_at) # date(db[j].target_date)
           /\ date(db[i].created_at).month = hist.a.month

====
